---- MODULE Spec2Model ----
(***************************************************************************)
(* A model of the bitdict package: schema validation, layout compilation   *)
(* and the record accessor engine with its parent/child push-up protocol.  *)
(*                                                                         *)
(* The repository holds two revisions of the engine.  bitdict/bitdict.py   *)
(* is self-contained (its own validation, reserved fields, no strict mode, *)
(* no inspect/valid).  bitdict/factory.py is the engine that works with    *)
(* bitdict/validation.py.  The variable impl says which revision a         *)
(* behaviour runs; every operator below follows the revision named by it.  *)
(*                                                                         *)
(* Python values: a bool is the integer 0 or 1 (True == 1 in Python), an   *)
(* integer is unbounded, a non-number is a value of kind "str", a mapping  *)
(* is a sequence of <<key, value>> pairs in insertion order.               *)
(***************************************************************************)
EXTENDS Integers, Sequences, FiniteSets, TLC

VARIABLES impl, root, built, config, val, err, ret, last, threads

vars == <<impl, root, built, config, val, err, ret, last, threads>>

---------------------------------------------------------------------------
(* Bit arithmetic on Python's unbounded two's-complement integers.         *)

RECURSIVE Pow2(_)
Pow2(n) == IF n = 0 THEN 1 ELSE 2 * Pow2(n - 1)

\* (v >> start) & ((1 << width) - 1)
Slice(v, start, width) == (v \div Pow2(start)) % Pow2(width)

\* v &= ~(mask << start)
ClearBits(v, start, width) == v - Slice(v, start, width) * Pow2(start)

\* v &= ~(mask << start); v |= (x & mask) << start
Splice(v, start, width, x) ==
    ClearBits(v, start, width) + (x % Pow2(width)) * Pow2(start)

Range(seq) == {seq[i] : i \in DOMAIN seq}

---------------------------------------------------------------------------
(* Schemas.  A schema is the sequence of its field configurations in       *)
(* declaration order (a Python dict keeps insertion order).  A subtype     *)
(* list names nested schemas; NoSchema is a None slot.                     *)

NoSchema == ""

Fld(n, t, s, w) ==
    [name |-> n, type |-> t, start |-> s, width |-> w,
     hasDefault |-> FALSE, default |-> 0,
     selector |-> "", subtype |-> <<>>,
     hasValid |-> FALSE, validValue |-> {}, validRange |-> <<>>]

WithDefault(f, d) == [f EXCEPT !.hasDefault = TRUE, !.default = d]

WithValid(f, vs, rs) ==
    [f EXCEPT !.hasValid = TRUE, !.validValue = vs, !.validRange = rs]

BitdictFld(n, s, w, sel, subs) ==
    [Fld(n, "bitdict", s, w) EXCEPT !.selector = sel, !.subtype = subs]

\* The schemas as the caller writes them, before validation.
RawConfig(sid) ==
    CASE sid = "B0" ->
           << Fld("x", "uint", 0, 1) >>
      [] sid = "B1" ->
           << WithDefault(Fld("y", "uint", 0, 1), 1) >>
      [] sid = "V0" ->
           << WithDefault(Fld("PropB", "int", 0, 2), -1) >>
      [] sid = "V1" ->
           << WithDefault(Fld("PropC", "uint", 0, 1), 1),
              WithDefault(Fld("PropD", "bool", 1, 1), 1) >>
      [] sid = "X1" ->
           << Fld("z", "uint", 0, 2),
              WithDefault(Fld("q", "uint", 2, 1), 1) >>
      [] sid = "D0" ->
           << Fld("N", "bool", 1, 1),
              BitdictFld("In", 0, 1, "N", <<"B0", "B1">>) >>
      [] sid = "OvlV" ->
           << Fld("f1", "uint", 0, 2), Fld("f2", "uint", 1, 1) >>
      [] sid = "Flat" ->
           << Fld("a", "uint", 0, 2),
              WithDefault(Fld("i", "int", 2, 2), -1) >>
      [] sid = "Main" ->
           << Fld("Const", "bool", 3, 1),
              Fld("Mode", "bool", 2, 1),
              BitdictFld("Sub", 0, 2, "Mode", <<"V0", "V1">>) >>
      [] sid = "Rsv" ->
           << Fld("Mode", "bool", 2, 1),
              Fld("Reserved", "reserved", 1, 1),
              BitdictFld("Sub", 0, 1, "Mode", <<"B0", "B1">>) >>
      [] sid = "Late" ->
           << BitdictFld("Sub", 0, 1, "Mode", <<"B0", "B1">>),
              WithDefault(Fld("Mode", "bool", 1, 1), 1) >>
      [] sid = "Kind3" ->
           << WithValid(Fld("Kind", "uint", 1, 2), {0, 2}, <<>>),
              BitdictFld("Body", 0, 1, "Kind", <<"B0", NoSchema, "B1">>) >>
      [] sid = "Deep" ->
           << Fld("M", "bool", 2, 1),
              BitdictFld("Out", 0, 2, "M", <<"D0">>) >>
      [] sid = "Fit" ->
           << Fld("M", "bool", 2, 1),
              BitdictFld("Sub", 0, 2, "M", <<"B0", "X1">>) >>
      [] sid = "Twin" ->
           << Fld("M", "bool", 2, 1),
              BitdictFld("A", 0, 1, "M", <<"B0", "B1">>),
              BitdictFld("B", 1, 1, "M", <<"B0", "B1">>) >>
      [] sid = "Ovl" ->
           << Fld("field1", "uint", 0, 2), Fld("field2", "uint", 1, 2) >>
      [] sid = "OvlRev" ->
           << Fld("field2", "uint", 1, 2), Fld("field1", "uint", 0, 2) >>
      [] sid = "NestOvl" ->
           << Fld("M", "bool", 2, 1),
              BitdictFld("S", 0, 2, "M", <<"B0", "OvlV">>) >>
      [] sid = "NullSel" ->
           << Fld("K", "bool", 1, 1),
              BitdictFld("S", 0, 1, "K", <<"B0", NoSchema>>) >>
      [] sid = "Wide" ->
           << Fld("lo", "uint", 0, 8), Fld("hi", "bool", 8, 1) >>
      [] sid = "P0" ->
           << WithDefault(Fld("PropA", "uint", 0, 2), 0),
              WithDefault(Fld("PropB", "int", 2, 2), -1) >>
      [] sid = "P1" ->
           << WithDefault(Fld("PropC", "uint", 0, 3), 1),
              WithDefault(Fld("PropD", "bool", 3, 1), 1) >>
      [] sid = "Scenario" ->
           << Fld("Constant", "bool", 7, 1),
              Fld("Mode", "bool", 6, 1),
              Fld("Reserved", "reserved", 4, 2),
              BitdictFld("SubValue", 0, 4, "Mode", <<"P0", "P1">>) >>
      [] sid = "C0" ->
           << WithValid(Fld("v", "uint", 0, 2), {}, << <<1, 3>> >>) >>
      [] sid = "C1" ->
           << WithValid(Fld("w", "uint", 0, 2), {0, 1}, <<>>) >>
      [] sid = "DefSel" ->
           << WithValid(WithDefault(Fld("K", "uint", 1, 1), 1), {0}, <<>>),
              BitdictFld("S", 0, 1, "K", <<"B0", NoSchema>>) >>
      [] sid = "Chk" ->
           << WithValid(Fld("t", "uint", 3, 1), {1}, <<>>),
              WithValid(Fld("Sel", "uint", 2, 1), {0}, <<>>),
              BitdictFld("Body", 0, 2, "Sel", <<"C0", "C1">>) >>

\* The schemas a Record Type is requested for, under each revision.
RootSchemas(rev) ==
    IF rev = "factory"
    THEN {"Flat", "Main", "Rsv", "Late", "Kind3", "Deep", "Fit", "Twin",
          "Ovl", "OvlRev", "NestOvl", "NullSel", "Chk", "DefSel"}
    ELSE {"Flat", "Rsv", "Late", "Ovl", "OvlRev", "NestOvl", "NullSel", "DefSel"}

\* The schemas a Record Type is requested for when records are built from
\* byte sequences: Wide takes two bytes.
ByteSchemas(rev) ==
    IF rev = "factory" THEN {"Wide", "Flat", "Kind3", "Fit"} ELSE {"Wide", "Flat"}

Impls == {"bitdict", "factory"}

---------------------------------------------------------------------------
(* Schema validation.                                                      *)

\* range of r for a tuple of one to three integers
PyRange(r) ==
    LET lo == IF Len(r) = 1 THEN 0 ELSE r[1]
        hi == IF Len(r) = 1 THEN r[1] ELSE r[2]
        st == IF Len(r) = 3 THEN r[3] ELSE 1
    IN IF st > 0
       THEN {x \in lo..(hi - 1) : (x - lo) % st = 0}
       ELSE {x \in (hi + 1)..lo : (lo - x) % (-st) = 0}

is_value_in_range(value, f) ==
    CASE f.type = "bool" -> value \in {0, 1}
      [] f.type = "uint" -> 0 <= value /\ value < Pow2(f.width)
      [] OTHER -> -Pow2(f.width - 1) <= value /\ value < Pow2(f.width - 1)

is_valid_value(value, f) ==
    \/ ~f.hasValid
    \/ value \in f.validValue
    \/ \E k \in DOMAIN f.validRange : value \in PyRange(f.validRange[k])

HasField(cfg, n) == \E k \in DOMAIN cfg : cfg[k].name = n

FieldOf(cfg, n) == cfg[CHOOSE k \in DOMAIN cfg : cfg[k].name = n]

\* the bits range(start, start + width) of one field
BitsOf(f) == f.start..(f.start + f.width - 1)

\* "ok", or the error raised when some bit is used by two fields
check_overlapping(cfg) ==
    IF \E j \in DOMAIN cfg :
          BitsOf(cfg[j]) \cap UNION {BitsOf(cfg[k]) : k \in 1..(j - 1)} # {}
    THEN "ValueError" ELSE "ok"

\* the first error of a sequence of results, "ok" if there is none
FirstError(es) ==
    IF \A k \in DOMAIN es : es[k] = "ok" THEN "ok"
    ELSE es[CHOOSE k \in DOMAIN es :
               es[k] # "ok" /\ \A j \in 1..(k - 1) : es[j] = "ok"]

ValidTypes(rev) ==
    IF rev = "bitdict" THEN {"bool", "uint", "int", "reserved", "bitdict"}
    ELSE {"bool", "uint", "int", "bitdict"}

\* the checks on one field that need no other field
DefaultValueError(f) ==
    IF ~f.hasDefault THEN "ok"
    ELSE IF f.type \in {"reserved", "bitdict"} THEN "ValueError"
    ELSE IF f.type = "bool"
         THEN (IF f.default \in {0, 1} THEN "ok" ELSE "TypeError")
    ELSE IF is_value_in_range(f.default, f) THEN "ok" ELSE "ValueError"

ValidKeyError(f) ==
    IF ~f.hasValid THEN "ok"
    ELSE IF f.type = "bitdict" THEN "ValueError"
    ELSE IF f.validValue = {} /\ f.validRange = <<>> THEN "ValueError"
    ELSE IF \E x \in f.validValue : ~is_value_in_range(x, f) THEN "ValueError"
    ELSE IF \E k \in DOMAIN f.validRange :
              \/ Len(f.validRange[k]) \notin 1..3
              \/ \E x \in PyRange(f.validRange[k]) : ~is_value_in_range(x, f)
         THEN "ValueError"
    ELSE "ok"

validate_single_property(rev, f) ==
    IF f.start < 0 \/ f.width <= 0 THEN "ValueError"
    ELSE IF f.type \notin ValidTypes(rev) THEN "ValueError"
    ELSE IF f.type = "bool" /\ f.width # 1 THEN "ValueError"
    ELSE IF DefaultValueError(f) # "ok" THEN DefaultValueError(f)
    ELSE IF rev = "factory" THEN ValidKeyError(f)
    ELSE "ok"

RECURSIVE validate_property_config(_, _)
RECURSIVE bitdict_factory(_, _)

\* one slot of a subtype list: the nested schema is validated (and, in
\* bitdict.py only, checked for overlap); validation.py then refuses a None
\* slot that the selector's valid constraint allows
SubtypeError(rev, sel, sub, idx) ==
    IF rev = "bitdict"
    THEN (IF sub = NoSchema THEN "ok" ELSE bitdict_factory(rev, sub))
    ELSE IF sub # NoSchema THEN validate_property_config(rev, sub)
    ELSE IF is_valid_value(idx, sel) THEN "ValueError"
    ELSE "ok"

validate_bitdict_properties(rev, cfg, f) ==
    IF ~HasField(cfg, f.selector) THEN "ValueError"
    ELSE IF FieldOf(cfg, f.selector).type \notin {"bool", "uint"} THEN "ValueError"
    ELSE IF FieldOf(cfg, f.selector).width > 16 THEN "ValueError"
    ELSE IF Len(f.subtype) = 0 THEN "ValueError"
    ELSE FirstError([k \in DOMAIN f.subtype |->
             SubtypeError(rev, FieldOf(cfg, f.selector), f.subtype[k], k - 1)])

validate_property_config(rev, sid) ==
    LET cfg == RawConfig(sid)
    IN FirstError([k \in DOMAIN cfg |->
          IF validate_single_property(rev, cfg[k]) # "ok"
          THEN validate_single_property(rev, cfg[k])
          ELSE IF cfg[k].type = "bitdict"
               THEN validate_bitdict_properties(rev, cfg, cfg[k])
               ELSE "ok"])

\* "ok" when the schema yields a Record Type, else the error raised
bitdict_factory(rev, sid) ==
    IF validate_property_config(rev, sid) # "ok"
    THEN validate_property_config(rev, sid)
    ELSE check_overlapping(RawConfig(sid))

SchemaIds ==
    {"B0", "B1", "V0", "V1", "X1", "D0", "OvlV", "Flat", "Main", "Rsv", "Late",
     "Kind3", "Deep", "Fit", "Twin", "Ovl", "OvlRev", "NestOvl", "NullSel",
     "Wide", "C0", "C1", "Chk", "P0", "P1", "Scenario", "DefSel"}

\* the validated configuration: omitted defaults are filled in
Config(sid) ==
    LET cfg == RawConfig(sid)
    IN [k \in DOMAIN cfg |->
          IF cfg[k].type \in {"bool", "uint", "int"} /\ ~cfg[k].hasDefault
          THEN WithDefault(cfg[k], 0) ELSE cfg[k]]

\* the reverse link "_bitdict" of a selector: the last bitdict field, in
\* declaration order, that names it; "" when the field is no selector
BitdictOf(cfg, n) ==
    IF \E k \in DOMAIN cfg : cfg[k].type = "bitdict" /\ cfg[k].selector = n
    THEN cfg[CHOOSE k \in DOMAIN cfg :
               /\ cfg[k].type = "bitdict" /\ cfg[k].selector = n
               /\ \A j \in (k + 1)..Len(cfg) :
                     ~(cfg[j].type = "bitdict" /\ cfg[j].selector = n)].name
    ELSE ""

calculate_total_width(cfg) ==
    LET ends == {cfg[k].start + cfg[k].width : k \in DOMAIN cfg} \cup {0}
    IN CHOOSE m \in ends : \A e \in ends : e <= m

---------------------------------------------------------------------------
(* The record accessor engine.  A Record Instance is named by its path     *)
(* from the root instance: <<>> is the root, Append(p, <<key, k>>) is the   *)
(* sub-record cached by p for bitdict field key and selector value k.      *)
(* An engine state s holds                                                 *)
(*   s.val  the integer _value of every instance that exists,              *)
(*   s.det  the instances whose _parent is None although they have a path  *)
(*          (a sub-record while its constructor runs),                     *)
(*   s.err  "none", or the exception that is propagating,                  *)
(*   s.ret  the value the method that ran last returned.                   *)
(* Every operation maps an engine state to an engine state and does        *)
(* nothing once an exception propagates.                                   *)

IntV(n) == [t |-> "int", v |-> n, d |-> <<>>]
StrV == [t |-> "str", v |-> 0, d |-> <<>>]
DictV(pairs) == [t |-> "dict", v |-> 0, d |-> pairs]
BytesV(bs) == [t |-> "bytes", v |-> 0, d |-> bs]
\* None
NoRet == [t |-> "none", v |-> 0, d |-> <<>>]
\* a reference to the Record Instance at path p
RefV(p) == [t |-> "ref", v |-> 0, d |-> p]
\* the (name, value) pairs an iteration yielded
ItemsV(pairs) == [t |-> "items", v |-> 0, d |-> pairs]

Returning(s, x) == [s EXCEPT !.ret = x]

Raise(s, e) == [s EXCEPT !.err = e]

Front(p) == SubSeq(p, 1, Len(p) - 1)
Last(p) == p[Len(p)]
SubPath(p, key, k) == Append(p, <<key, k>>)
IsPrefix(p, q) == Len(p) <= Len(q) /\ SubSeq(q, 1, Len(p)) = p

MapHas(d, n) == \E k \in DOMAIN d : d[k][1] = n
MapGet(d, n) == d[CHOOSE k \in DOMAIN d : d[k][1] = n][2]

\* the schema of the Record Type of the instance at path p
RECURSIVE SchemaAt(_)
SchemaAt(p) ==
    IF p = <<>> THEN root
    ELSE FieldOf(config[SchemaAt(Front(p))], Last(p)[1]).subtype[Last(p)[2] + 1]

ConfigAt(p) == config[SchemaAt(p)]

\* __getitem__ without the two's-complement decode of an int field
DecodeField_Unsigned(f, v) ==
    LET raw == Slice(v, f.start, f.width)
    IN IF f.type = "bool" THEN (IF raw # 0 THEN 1 ELSE 0) ELSE raw

\* __getitem__ of a bool, uint or int field, on the integer v
DecodeField(f, v) ==
    LET raw == Slice(v, f.start, f.width)
    IN CASE f.type = "bool" -> IF raw # 0 THEN 1 ELSE 0
         [] f.type = "uint" -> raw
         [] OTHER -> IF Slice(raw, f.width - 1, 1) # 0
                     THEN raw - Pow2(f.width) ELSE raw

getitem(s, p, key) == DecodeField(FieldOf(ConfigAt(p), key), s.val[p])

\* the selector value of bitdict field f of the instance at p
SelectorValue(s, p, f) == getitem(s, p, f.selector)

to_int(s, p) == s.val[p]

\* the bitdict field of the parent that holds the sub-record at p
ParentField(p) == FieldOf(ConfigAt(Front(p)), Last(p)[1])

\* _update_parent that leaves the parent as it is
update_parent_Skip(s, p) == s

\* _update_parent that does not mask the sub-record's integer to the width of
\* the parent's field
update_parent_Unmasked(s, p) ==
    IF p = <<>> \/ p \in s.det THEN s
    ELSE LET pc == FieldOf(ConfigAt(Front(p)), Last(p)[1])
         IN [s EXCEPT !.val[Front(p)] =
                ClearBits(@, pc.start, pc.width) + to_int(s, p) * Pow2(pc.start)]

\* _update_parent: one hop, into the immediate parent only
update_parent(s, p) ==
    IF p = <<>> \/ p \in s.det THEN s
    ELSE LET pc == FieldOf(ConfigAt(Front(p)), Last(p)[1])
         IN [s EXCEPT !.val[Front(p)] =
                Splice(@, pc.start, pc.width, to_int(s, p))]

\* Then(e, F) is F applied to the value of e: e is evaluated once, as a
\* Python statement is, however often F's body reads its result
Then(e, F(_)) == CHOOSE r \in {F(x) : x \in {e}} : TRUE

RECURSIVE reset_from(_, _, _)
RECURSIVE set_mapping_from(_, _, _, _)
RECURSIVE set_strict_from(_, _, _, _)
RECURSIVE set_defaults_from(_, _, _, _, _)
RECURSIVE set_subbitdicts_from(_, _, _, _)
RECURSIVE update_from(_, _, _, _)
RECURSIVE inspect_from(_, _, _, _)
RECURSIVE valid_from(_, _, _)
RECURSIVE contains_from(_, _, _, _)
RECURSIVE iter_from(_, _, _, _, _)
RECURSIVE to_json_from(_, _, _, _, _)

\* a method call made from inside another method: <<name, self, arguments>>
RECURSIVE Do(_, _)

\* a new instance that writes its defaults into the parent once it is cached
NewInstance_PushUp(s, q) ==
    Then(Do([s EXCEPT !.val = (q :> 0) @@ @, !.det = @ \cup {q}], <<"reset", q>>),
         LAMBDA made : IF made.err # "none" THEN Raise(s, made.err)
                       ELSE update_parent([made EXCEPT !.det = @ \ {q}], q))

\* bdtype(): a new instance with no parent, reset to its defaults; the
\* instance is kept only when its constructor returns
NewInstance(s, q) ==
    Then(Do([s EXCEPT !.val = (q :> 0) @@ @, !.det = @ \cup {q}], <<"reset", q>>),
         LAMBDA made : IF made.err # "none" THEN Raise(s, made.err)
                       ELSE [made EXCEPT !.det = @ \ {q}])

get_subbitdict(s, p, key, k) ==
    IF s.err # "none" THEN s
    ELSE IF SubPath(p, key, k) \in DOMAIN s.val THEN s
    ELSE IF k >= Len(FieldOf(ConfigAt(p), key).subtype) THEN Raise(s, "IndexError")
    ELSE IF FieldOf(ConfigAt(p), key).subtype[k + 1] = NoSchema
         THEN Raise(s, "AssertionError")
    ELSE NewInstance(s, SubPath(p, key, k))

\* the type and range checks of __setitem__ on a bool, uint or int field:
\* "none" or the exception raised
CheckValue(f, value) ==
    CASE f.type = "bool" -> IF value.t # "int" THEN "TypeError" ELSE "none"
      [] f.type = "uint" ->
           IF value.t # "int" THEN "TypeError"
           ELSE IF ~(0 <= value.v /\ value.v < Pow2(f.width)) THEN "ValueError"
           ELSE "none"
      [] OTHER ->
           IF value.t # "int" THEN "TypeError"
           ELSE IF ~(-Pow2(f.width - 1) <= value.v /\ value.v < Pow2(f.width - 1))
                THEN "ValueError"
           ELSE "none"

\* the bit pattern __setitem__ stores for an accepted value
EncodeValue(f, value) ==
    CASE f.type = "bool" -> IF value.v # 0 THEN 1 ELSE 0
      [] f.type = "uint" -> value.v
      [] OTHER -> IF value.v < 0 THEN Pow2(f.width) + value.v ELSE value.v

\* the selector part of __setitem__: the sub-record for the new selector
\* value is fetched and its integer spliced into the bitdict field's bits
SpliceSelected(s, p, f, pat) ==
    IF BitdictOf(ConfigAt(p), f.name) = "" THEN s
    ELSE Then(Do(s, <<"get_subbitdict", p, BitdictOf(ConfigAt(p), f.name), pat>>),
              LAMBDA got :
                 IF got.err # "none" THEN got
                 ELSE [got EXCEPT !.val[p] =
                         Splice(@, FieldOf(ConfigAt(p), BitdictOf(ConfigAt(p), f.name)).start,
                                FieldOf(ConfigAt(p), BitdictOf(ConfigAt(p), f.name)).width,
                                to_int(got, SubPath(p, BitdictOf(ConfigAt(p), f.name), pat)))])

\* __setitem__ writing the field's own bits before it fetches the sub-record
\* for the new selector value
StoreField_WriteFirst(s, p, f, pat) ==
    Then(SpliceSelected([s EXCEPT !.val[p] = Splice(@, f.start, f.width, pat)], p, f, pat),
         LAMBDA s1 : IF s1.err # "none" THEN s1 ELSE update_parent(s1, p))

\* __setitem__ assigning the shifted pattern as the whole integer instead of
\* clearing the field's bits and OR-ing the pattern in
StoreField_Overwrite(s, p, f, pat) ==
    Then(SpliceSelected(s, p, f, pat),
         LAMBDA s1 :
            IF s1.err # "none" THEN s1
            ELSE Then([s1 EXCEPT !.val[p] = pat * Pow2(f.start)],
                      LAMBDA s2 : update_parent(s2, p)))

\* the writes of __setitem__ once the pattern is known: the selector
\* splice, the field's own bits, then the push into the parent
StoreField(s, p, f, pat) ==
    Then(SpliceSelected(s, p, f, pat),
         LAMBDA s1 :
            IF s1.err # "none" THEN s1
            ELSE Then([s1 EXCEPT !.val[p] = Splice(@, f.start, f.width, pat)],
                      LAMBDA s2 : update_parent(s2, p)))

\* __setitem__ of a bitdict field: set() on the selected sub-record, whose
\* integer is then the pattern
SetSubrecord(s, p, f, value) ==
    Then(SelectorValue(s, p, f),
         LAMBDA k :
            Then(Do(s, <<"get_subbitdict", p, f.name, k>>),
                 LAMBDA got :
                    Then(Do(got, <<"set", SubPath(p, f.name, k), value, FALSE, <<>> >>),
                         LAMBDA done :
                            IF done.err # "none" THEN done
                            ELSE StoreField(done, p, f,
                                            to_int(done, SubPath(p, f.name, k))))))

setitem(s, p, key, value) ==
    IF s.err # "none" THEN s
    ELSE IF ~HasField(ConfigAt(p), key) THEN Raise(s, "KeyError")
    ELSE Then(FieldOf(ConfigAt(p), key),
              LAMBDA f :
                 IF f.type = "reserved"
                 THEN Raise(s, IF impl = "bitdict" THEN "ValueError" ELSE "AssertionError")
                 ELSE IF f.type = "bitdict" THEN SetSubrecord(s, p, f, value)
                 ELSE IF CheckValue(f, value) # "none" THEN Raise(s, CheckValue(f, value))
                 ELSE StoreField(s, p, f, EncodeValue(f, value)))

\* reset() leaving the selected sub-record of a bitdict field as it is
ResetField_SkipBitdict(s, p, f) ==
    IF f.type = "reserved"
    THEN (IF impl = "bitdict" THEN s ELSE Raise(s, "KeyError"))
    ELSE IF f.type = "bitdict" THEN s
    ELSE Do(s, <<"setitem", p, f.name, IntV(f.default)>>)

\* reset() of one field
ResetField(s, p, f) ==
    IF f.type = "reserved"
    THEN (IF impl = "bitdict" THEN s ELSE Raise(s, "KeyError"))
    ELSE IF f.type = "bitdict"
    THEN Then(SelectorValue(s, p, f),
              LAMBDA k : Then(Do(s, <<"get_subbitdict", p, f.name, k>>),
                              LAMBDA got : Do(got, <<"reset", SubPath(p, f.name, k)>>)))
    ELSE Do(s, <<"setitem", p, f.name, IntV(f.default)>>)

\* reset(): the fields from the i-th on, in declaration order
reset_from(s, p, i) ==
    IF s.err # "none" \/ i > Len(ConfigAt(p)) THEN s
    ELSE Then(ResetField(s, p, ConfigAt(p)[i]),
              LAMBDA s1 : reset_from(s1, p, i + 1))

\* set(mapping) that assigns the default to every field, given or not
SetMappingField_DefaultsOnly(s, p, d, f) ==
    IF f.hasDefault THEN Do(s, <<"setitem", p, f.name, IntV(f.default)>>)
    ELSE s

\* set(mapping), ignore_unknown: one declared field
SetMappingField(s, p, d, f) ==
    IF MapHas(d, f.name) THEN Do(s, <<"setitem", p, f.name, MapGet(d, f.name)>>)
    ELSE IF f.hasDefault THEN Do(s, <<"setitem", p, f.name, IntV(f.default)>>)
    ELSE s

\* set(mapping), ignore_unknown: every declared field, in declaration order
set_mapping_from(s, p, d, i) ==
    IF s.err # "none" \/ i > Len(ConfigAt(p)) THEN s
    ELSE Then(SetMappingField(s, p, d, ConfigAt(p)[i]),
              LAMBDA s1 : set_mapping_from(s1, p, d, i + 1))

\* set(mapping), strict: the given keys in the mapping's order
set_strict_from(s, p, d, i) ==
    IF s.err # "none" \/ i > Len(d) THEN s
    ELSE IF ~HasField(ConfigAt(p), d[i][1]) THEN Raise(s, "KeyError")
    ELSE Then(Do(s, <<"setitem", p, d[i][1], d[i][2]>>),
              LAMBDA s1 : set_strict_from(s1, p, d, i + 1))

\* set(mapping), strict: the defaults of the fields not given; order is the
\* iteration order of the Python set of field names
set_defaults_from(s, p, d, order, i) ==
    IF s.err # "none" \/ i > Len(order) THEN s
    ELSE Then(IF ~MapHas(d, order[i]) /\ FieldOf(ConfigAt(p), order[i]).hasDefault
              THEN Do(s, <<"setitem", p, order[i],
                           IntV(FieldOf(ConfigAt(p), order[i]).default)>>)
              ELSE s,
              LAMBDA s1 : set_defaults_from(s1, p, d, order, i + 1))

\* set(int): the selected sub-record of one bitdict field is set to its slice
SetSubbitdict(s, p, value, f) ==
    IF f.type # "bitdict" THEN s
    ELSE Then(SelectorValue(s, p, f),
              LAMBDA k : Then(Do(s, <<"get_subbitdict", p, f.name, k>>),
                              LAMBDA got :
                                 Do(got, <<"set", SubPath(p, f.name, k),
                                           IntV(Slice(value, f.start, f.width)),
                                           FALSE, <<>> >>)))

\* set(int): every bitdict field, in declaration order
set_subbitdicts_from(s, p, value, i) ==
    IF s.err # "none" \/ i > Len(ConfigAt(p)) THEN s
    ELSE Then(SetSubbitdict(s, p, value, ConfigAt(p)[i]),
              LAMBDA s1 : set_subbitdicts_from(s1, p, value, i + 1))

\* the lower bound set(int) enforces: bitdict.py -(1 << (width - 1)),
\* factory.py 0
SetIntMin(p) ==
    IF impl = "bitdict" THEN -Pow2(calculate_total_width(ConfigAt(p)) - 1) ELSE 0

\* set(int) that re-derives the sub-records before it stores the integer, so
\* that the selector values are read from the old integer
set_DeriveFirst(s, p, value, strict, order) ==
    IF s.err # "none" THEN s
    ELSE IF value.t = "dict"
    THEN (IF ~strict THEN set_mapping_from(s, p, value.d, 1)
          ELSE Then(set_strict_from(s, p, value.d, 1),
                    LAMBDA s1 : set_defaults_from(s1, p, value.d, order, 1)))
    ELSE IF value.t # "int" THEN Raise(s, "TypeError")
    ELSE IF value.v >= Pow2(calculate_total_width(ConfigAt(p)))
    THEN Raise(s, "ValueError")
    ELSE IF value.v < SetIntMin(p) THEN Raise(s, "ValueError")
    ELSE Then(set_subbitdicts_from(s, p, value.v, 1),
              LAMBDA s1 : IF s1.err # "none" THEN s1
                          ELSE [s1 EXCEPT !.val[p] = value.v])

set(s, p, value, strict, order) ==
    IF s.err # "none" THEN s
    ELSE IF value.t = "dict"
    THEN (IF ~strict THEN set_mapping_from(s, p, value.d, 1)
          ELSE Then(set_strict_from(s, p, value.d, 1),
                    LAMBDA s1 : set_defaults_from(s1, p, value.d, order, 1)))
    ELSE IF value.t # "int" THEN Raise(s, "TypeError")
    ELSE IF value.v >= Pow2(calculate_total_width(ConfigAt(p)))
    THEN Raise(s, "ValueError")
    ELSE IF value.v < SetIntMin(p) THEN Raise(s, "ValueError")
    ELSE Then([s EXCEPT !.val[p] = value.v],
              LAMBDA s1 : set_subbitdicts_from(s1, p, value.v, 1))

reset(s, p) == reset_from(s, p, 1)

clear(s, p) == set(s, p, IntV(0), FALSE, <<>>)

update_from(s, p, d, i) ==
    IF s.err # "none" \/ i > Len(d) THEN s
    ELSE Then(Do(s, <<"setitem", p, d[i][1], d[i][2]>>),
              LAMBDA s1 : update_from(s1, p, d, i + 1))

\* update() that puts the record back as it was when an assignment raises
update_RollBack(s, p, value) ==
    IF value.t # "dict" THEN Raise(s, "TypeError")
    ELSE Then(update_from(s, p, value.d, 1),
              LAMBDA r : IF r.err # "none" THEN Raise(s, r.err) ELSE r)

update(s, p, value) ==
    IF value.t # "dict" THEN Raise(s, "TypeError")
    ELSE update_from(s, p, value.d, 1)

\* __getitem__: the value of a bool, uint or int field, or the selected
\* sub-record of a bitdict field
get(s, p, key) ==
    IF s.err # "none" THEN s
    ELSE IF ~HasField(ConfigAt(p), key) THEN Raise(s, "KeyError")
    ELSE Then(FieldOf(ConfigAt(p), key),
              LAMBDA f :
                 IF f.type = "reserved"
                 THEN Raise(s, IF impl = "bitdict" THEN "ValueError" ELSE "AssertionError")
                 ELSE IF f.type = "bitdict"
                 THEN Then(SelectorValue(s, p, f),
                           LAMBDA k :
                              Then(Do(s, <<"get_subbitdict", p, key, k>>),
                                   LAMBDA got :
                                      IF got.err # "none" THEN got
                                      ELSE Returning(got, RefV(SubPath(p, key, k)))))
                 ELSE Returning(s, IntV(getitem(s, p, key))))

\* d[k] = x on a Python dict: an existing key keeps its place
DictPut(d, k, x) ==
    IF MapHas(d, k)
    THEN [i \in DOMAIN d |-> IF d[i][1] = k THEN <<k, x>> ELSE d[i]]
    ELSE Append(d, <<k, x>>)

\* inspect() descending into the selected sub-record whether or not the
\* selector value is valid
InspectField_Descend(s, p, f, acc) ==
    IF f.type = "bitdict"
    THEN Then(SelectorValue(s, p, f),
              LAMBDA k :
                 Then(Do(s, <<"get_subbitdict", p, f.name, k>>),
                      LAMBDA got :
                         Then(Do(got, <<"inspect", SubPath(p, f.name, k)>>),
                              LAMBDA sub :
                                 IF sub.err # "none" THEN sub
                                 ELSE IF sub.ret.d # <<>>
                                 THEN Returning(sub, DictV(DictPut(acc, f.name, sub.ret)))
                                 ELSE Returning(sub, DictV(acc)))))
    ELSE IF is_valid_value(getitem(s, p, f.name), f) THEN Returning(s, DictV(acc))
    ELSE Returning(s, DictV(DictPut(acc, f.name, IntV(getitem(s, p, f.name)))))

\* inspect(): one field, with the report acc collected so far; the new
\* report is returned
InspectField(s, p, f, acc) ==
    IF f.type = "bitdict"
    THEN Then(SelectorValue(s, p, f),
              LAMBDA k :
                 IF ~is_valid_value(k, FieldOf(ConfigAt(p), f.selector))
                 THEN Returning(s, DictV(DictPut(acc, f.selector, IntV(k))))
                 ELSE Then(Do(s, <<"get_subbitdict", p, f.name, k>>),
                           LAMBDA got :
                              Then(Do(got, <<"inspect", SubPath(p, f.name, k)>>),
                                   LAMBDA sub :
                                      IF sub.err # "none" THEN sub
                                      ELSE IF sub.ret.d # <<>>
                                      THEN Returning(sub, DictV(DictPut(acc, f.name, sub.ret)))
                                      ELSE Returning(sub, DictV(acc)))))
    ELSE IF is_valid_value(getitem(s, p, f.name), f) THEN Returning(s, DictV(acc))
    ELSE Returning(s, DictV(DictPut(acc, f.name, IntV(getitem(s, p, f.name)))))

\* inspect(): the fields from the i-th on, in declaration order
inspect_from(s, p, i, acc) ==
    IF s.err # "none" THEN s
    ELSE IF i > Len(ConfigAt(p)) THEN Returning(s, DictV(acc))
    ELSE Then(InspectField(s, p, ConfigAt(p)[i], acc),
              LAMBDA s1 : IF s1.err # "none" THEN s1
                          ELSE inspect_from(s1, p, i + 1, s1.ret.d))

inspect(s, p) == inspect_from(s, p, 1, <<>>)

\* valid() that takes a bitdict field as valid without looking at its
\* selector or its sub-record
ValidField_Shallow(s, p, f) ==
    IF f.type = "bitdict" THEN Returning(s, IntV(1))
    ELSE Returning(s, IntV(IF is_valid_value(getitem(s, p, f.name), f) THEN 1 ELSE 0))

\* valid(): one field; False is returned as 0, True as 1
ValidField(s, p, f) ==
    IF f.type = "bitdict"
    THEN Then(SelectorValue(s, p, f),
              LAMBDA k :
                 IF ~is_valid_value(k, FieldOf(ConfigAt(p), f.selector))
                 THEN Returning(s, IntV(0))
                 ELSE Then(Do(s, <<"get_subbitdict", p, f.name, k>>),
                           LAMBDA got : Do(got, <<"valid", SubPath(p, f.name, k)>>)))
    ELSE Returning(s, IntV(IF is_valid_value(getitem(s, p, f.name), f) THEN 1 ELSE 0))

\* valid(): the fields from the i-th on; the first invalid one ends the loop
valid_from(s, p, i) ==
    IF s.err # "none" THEN s
    ELSE IF i > Len(ConfigAt(p)) THEN Returning(s, IntV(1))
    ELSE Then(ValidField(s, p, ConfigAt(p)[i]),
              LAMBDA s1 : IF s1.err # "none" \/ s1.ret.v = 0 THEN s1
                          ELSE valid_from(s1, p, i + 1))

valid(s, p) == valid_from(s, p, 1)

\* __contains__: the bitdict fields from the i-th on are searched, through
\* their selected sub-records, until the key is found
contains_from(s, p, key, i) ==
    IF s.err # "none" THEN s
    ELSE IF i > Len(ConfigAt(p)) THEN Returning(s, IntV(0))
    ELSE IF ConfigAt(p)[i].type # "bitdict" THEN contains_from(s, p, key, i + 1)
    ELSE Then(Do(s, <<"get", p, ConfigAt(p)[i].name>>),
              LAMBDA got :
                 IF got.err # "none" THEN got
                 ELSE Then(Do(got, <<"contains", got.ret.d, key>>),
                           LAMBDA sub :
                              IF sub.err # "none" \/ sub.ret.v = 1 THEN sub
                              ELSE contains_from(sub, p, key, i + 1)))

contains(s, p, key) ==
    IF HasField(ConfigAt(p), key) THEN Returning(s, IntV(1))
    ELSE contains_from(s, p, key, 1)

\* sorted(config.items(), key=start): the field indexes by start bit, equal
\* starts in declaration order
SortedByStart(cfg) ==
    CHOOSE o \in [DOMAIN cfg -> DOMAIN cfg] :
       \A i, j \in DOMAIN cfg :
          i < j => \/ cfg[o[i]].start < cfg[o[j]].start
                   \/ cfg[o[i]].start = cfg[o[j]].start /\ o[i] < o[j]

\* __iter__ run to its end: the fields of order from the i-th on; bitdict.py
\* leaves the reserved fields out
iter_from(s, p, order, i, acc) ==
    IF s.err # "none" THEN s
    ELSE IF i > Len(order) THEN Returning(s, ItemsV(acc))
    ELSE IF impl = "bitdict" /\ ConfigAt(p)[order[i]].type = "reserved"
    THEN iter_from(s, p, order, i + 1, acc)
    ELSE Then(Do(s, <<"get", p, ConfigAt(p)[order[i]].name>>),
              LAMBDA got :
                 IF got.err # "none" THEN got
                 ELSE iter_from(got, p, order, i + 1,
                                Append(acc, <<ConfigAt(p)[order[i]].name, got.ret>>)))

iter(s, p) == iter_from(s, p, SortedByStart(ConfigAt(p)), 1, <<>>)

\* to_json(): the pairs the iterator gave, from the i-th down to the first;
\* each name is read again and a sub-record is converted in its turn
to_json_from(s, p, items, i, acc) ==
    IF s.err # "none" THEN s
    ELSE IF i < 1 THEN Returning(s, DictV(acc))
    ELSE Then(Do(s, <<"get", p, items[i][1]>>),
              LAMBDA got :
                 IF got.err # "none" THEN got
                 ELSE IF got.ret.t # "ref"
                 THEN to_json_from(got, p, items, i - 1,
                                   DictPut(acc, items[i][1], got.ret))
                 ELSE Then(Do(got, <<"to_json", got.ret.d>>),
                           LAMBDA sub :
                              IF sub.err # "none" THEN sub
                              ELSE to_json_from(sub, p, items, i - 1,
                                                DictPut(acc, items[i][1], sub.ret))))

to_json(s, p) ==
    Then(Do(s, <<"iter", p>>),
         LAMBDA it : IF it.err # "none" THEN it
                     ELSE to_json_from(it, p, it.ret.d, Len(it.ret.d), <<>>))

\* to_bytes(): int.to_bytes(num_bytes, "big") refuses a negative integer and
\* one that needs more bytes
to_bytes(s, p) ==
    LET n == (calculate_total_width(ConfigAt(p)) + 7) \div 8
    IN IF s.val[p] < 0 \/ s.val[p] >= Pow2(8 * n) THEN Raise(s, "OverflowError")
       ELSE Returning(s, BytesV([i \in 1..n |-> (s.val[p] \div Pow2(8 * (n - i))) % 256]))

Do(s, c) ==
    CASE c[1] = "setitem" -> setitem(s, c[2], c[3], c[4])
      [] c[1] = "set" -> set(s, c[2], c[3], c[4], c[5])
      [] c[1] = "reset" -> reset(s, c[2])
      [] c[1] = "get_subbitdict" -> get_subbitdict(s, c[2], c[3], c[4])
      [] c[1] = "clear" -> clear(s, c[2])
      [] c[1] = "update" -> update(s, c[2], c[3])
      [] c[1] = "get" -> get(s, c[2], c[3])
      [] c[1] = "inspect" -> inspect(s, c[2])
      [] c[1] = "valid" -> valid(s, c[2])
      [] c[1] = "contains" -> contains(s, c[2], c[3])
      [] c[1] = "iter" -> iter(s, c[2])
      [] c[1] = "to_json" -> to_json(s, c[2])
      [] c[1] = "to_int" -> Returning(s, IntV(to_int(s, c[2])))
      [] c[1] = "to_bytes" -> to_bytes(s, c[2])

---------------------------------------------------------------------------
(* Inputs.                                                                 *)

\* a mapping offered to set()/update() has at most MaxKeys keys
MaxKeys == 1

FieldNames(cfg) == {cfg[k].name : k \in DOMAIN cfg}

UnknownKey == "Bogus"

\* integers offered for a scalar field: its domain and one value beyond it
\* on either side
ScalarDomain(f) ==
    CASE f.type = "bool" -> -1..2
      [] f.type = "uint" -> -1..Pow2(f.width)
      [] f.type = "int" -> (-Pow2(f.width - 1) - 1)..Pow2(f.width - 1)
      [] OTHER -> 0..1

\* values a mapping gives a scalar field: the ends of its domain, and the
\* first value above it
MappingScalars(f) ==
    CASE f.type = "bool" -> {IntV(0), IntV(1)}
      [] f.type = "uint" -> {IntV(0), IntV(Pow2(f.width) - 1), IntV(Pow2(f.width))}
      [] f.type = "int" -> {IntV(-Pow2(f.width - 1)), IntV(Pow2(f.width - 1))}
      [] OTHER -> {IntV(0)}

ScalarFields(cfg) == {k \in DOMAIN cfg : cfg[k].type \in {"bool", "uint", "int"}}

\* nested mappings offered for a bitdict field: one key of one of its
\* variants, or an unknown key, or nothing
NestedMappings(f) ==
    {DictV(<<>>), DictV(<< <<UnknownKey, IntV(1)>> >>)} \cup
    UNION { UNION { {DictV(<< <<config[f.subtype[k]][j].name, x>> >>) :
                       x \in MappingScalars(config[f.subtype[k]][j])} :
                    j \in ScalarFields(config[f.subtype[k]]) } :
            k \in {k \in DOMAIN f.subtype : f.subtype[k] # NoSchema} }

MappingValues(cfg, n) ==
    IF ~HasField(cfg, n) THEN {IntV(1)}
    ELSE IF FieldOf(cfg, n).type = "bitdict"
         THEN NestedMappings(FieldOf(cfg, n)) \cup {IntV(1)}
    ELSE MappingScalars(FieldOf(cfg, n))

\* the mappings of at most max keys offered to an instance of schema cfg
MappingsOf(cfg, max) ==
    LET keys == FieldNames(cfg) \cup {UnknownKey}
        pairs == UNION {{<<k, x>> : x \in MappingValues(cfg, k)} : k \in keys}
    IN UNION { {DictV(d) : d \in
                  {d \in [1..n -> pairs] :
                       \A i, j \in 1..n : i # j => d[i][1] # d[j][1]}} :
               n \in 0..max }

\* the mappings offered to an instance of schema cfg
Mappings(cfg) == MappingsOf(cfg, MaxKeys)

\* the orders in which a Python set of the names in ns may be iterated
Orders(ns) ==
    {o \in [1..Cardinality(ns) -> ns] : \A i, j \in DOMAIN o : i # j => o[i] # o[j]}

\* the names strict set() assigns a default to when given mapping d
Defaulted(cfg, d) ==
    {cfg[k].name : k \in {k \in DOMAIN cfg : cfg[k].hasDefault /\ ~MapHas(d, cfg[k].name)}}

\* values offered to __setitem__ of field key of schema cfg
SetItemInputs(cfg, key) ==
    IF ~HasField(cfg, key) THEN {IntV(1)}
    ELSE IF FieldOf(cfg, key).type = "bitdict"
    THEN {IntV(v) : v \in -1..Pow2(FieldOf(cfg, key).width)} \cup {StrV}
         \cup NestedMappings(FieldOf(cfg, key))
    ELSE {IntV(v) : v \in ScalarDomain(FieldOf(cfg, key))} \cup {StrV}

\* integers offered to set(int) and to the constructor of a type of width w
IntInputs(w) == (-Pow2(w - 1) - 1)..Pow2(w)

---------------------------------------------------------------------------
(* The state machine.  The caller makes one call at a time and looks at    *)
(* its outcome before the next.                                            *)
(*   impl   the revision of the engine                                     *)
(*   root   the schema the Record Type is requested for                    *)
(*   built  "unbuilt", "ok" once bitdict_factory returned the type, or the *)
(*          error it raised                                                *)
(*   config the _config of every Record Type the factory built, by schema *)
(*          name                                                           *)
(*   val    the integer of every Record Instance that exists, by path      *)
(*   err    the outcome of the call just made: "none" or the exception     *)
(*   ret    the value the call just made returned                          *)
(*   last   the call just made: its name, the instance, the key and the    *)
(*          argument; op = "none" when the caller is between calls         *)

NoInstances == <<>>

NoArg == IntV(0)

Call(op, p, key, arg) == [op |-> op, p |-> p, key |-> key, arg |-> arg]

NoCall == Call("none", <<>>, "", NoArg)

Idle == last.op = "none"

\* no calls are running side by side
NoThreads ==
    [active |-> FALSE, serial |-> FALSE, start |-> NoInstances,
     job |-> <<>>, pc |-> <<>>, x |-> <<>>]

Engine == [val |-> val, det |-> {}, err |-> "none", ret |-> NoRet]

\* a constructor call starts from an instance with _value = 0
Fresh == [val |-> (<<>> :> 0), det |-> {}, err |-> "none", ret |-> NoRet]

Exists == <<>> \in DOMAIN val

\* the outcome of a method call on an existing instance
Commit(s, call) ==
    /\ \E r \in {s} : /\ val' = r.val
                      /\ err' = r.err
                      /\ ret' = IF r.err = "none" THEN r.ret ELSE NoRet
    /\ last' = call
    /\ UNCHANGED <<impl, root, built, config, threads>>

\* the outcome of a constructor call: no instance when it raises
CommitNew(s, call) ==
    /\ \E r \in {s} : /\ val' = IF r.err = "none" THEN r.val ELSE NoInstances
                      /\ err' = r.err
    /\ ret' = NoRet
    /\ last' = call
    /\ UNCHANGED <<impl, root, built, config, threads>>

Init ==
    /\ impl \in Impls
    /\ root \in RootSchemas(impl)
    /\ built = "unbuilt"
    /\ config = <<>>
    /\ val = NoInstances
    /\ err = "none"
    /\ ret = NoRet
    /\ last = NoCall
    /\ threads = NoThreads

\* bitdict_factory(config)
Factory ==
    /\ Idle /\ built = "unbuilt"
    /\ built' = bitdict_factory(impl, root)
    /\ config' = IF built' = "ok" THEN [sid \in SchemaIds |-> Config(sid)] ELSE <<>>
    /\ last' = Call("factory", <<>>, "", NoArg)
    /\ UNCHANGED <<impl, root, val, err, ret, threads>>

\* the caller has seen the outcome and goes on
Return ==
    /\ ~Idle
    /\ last' = NoCall
    /\ err' = "none"
    /\ ret' = NoRet
    /\ UNCHANGED <<impl, root, built, config, val, threads>>

CanConstruct == Idle /\ built = "ok" /\ ~Exists

TotalWidth == calculate_total_width(config[root])

\* RecordType()
ConstructNone ==
    /\ CanConstruct
    /\ CommitNew(Do(Fresh, <<"reset", <<>> >>), Call("init_none", <<>>, "", NoArg))

\* the range check of __init__ on an integer seed
init_int(value) ==
    IF value >= Pow2(TotalWidth) THEN Raise(Fresh, "ValueError")
    ELSE IF value < -Pow2(TotalWidth - 1) THEN Raise(Fresh, "ValueError")
    ELSE Do(Fresh, <<"set", <<>>, IntV(value), FALSE, <<>> >>)

\* RecordType(I)
ConstructInt ==
    /\ CanConstruct
    /\ \E I \in IntInputs(TotalWidth) :
          CommitNew(init_int(I), Call("init_int", <<>>, "", IntV(I)))

\* RecordType(mapping)
ConstructMapping ==
    /\ CanConstruct
    /\ \E d \in Mappings(config[root]) :
          CommitNew(Do(Fresh, <<"set", <<>>, d, FALSE, <<>> >>),
                    Call("init_mapping", <<>>, "", d))

\* RecordType("string")
ConstructBad ==
    /\ CanConstruct
    /\ CommitNew(Raise(Fresh, "TypeError"), Call("init_bad", <<>>, "", StrV))

\* int.from_bytes(bs, "little")
RECURSIVE from_bytes_little(_)
from_bytes_little(bs) ==
    IF bs = <<>> THEN 0 ELSE bs[1] + 256 * from_bytes_little(Tail(bs))

\* int.from_bytes(bs, "big")
RECURSIVE from_bytes(_)
from_bytes(bs) ==
    IF bs = <<>> THEN 0 ELSE 256 * from_bytes(Front(bs)) + Last(bs)

\* the length check of __init__ on a byte sequence, then set(int)
init_bytes(bs) ==
    IF Len(bs) > (TotalWidth + 7) \div 8 THEN Raise(Fresh, "ValueError")
    ELSE Do(Fresh, <<"set", <<>>, IntV(from_bytes(bs)), FALSE, <<>> >>)

\* the byte sequences tried: up to MaxBytes bytes out of ByteValues
MaxBytes == 3
ByteValues == {0, 1, 16, 255}
ByteSeqs == UNION {[1..n -> ByteValues] : n \in 0..MaxBytes}

\* RecordType(bytes)
ConstructBytes ==
    /\ CanConstruct
    /\ \E bs \in ByteSeqs :
          CommitNew(init_bytes(bs), Call("init_bytes", <<>>, "", BytesV(bs)))

\* the caller drops the record
Discard ==
    /\ Idle /\ Exists
    /\ val' = NoInstances
    /\ err' = "none"
    /\ ret' = NoRet
    /\ last' = Call("discard", <<>>, "", NoArg)
    /\ UNCHANGED <<impl, root, built, config, threads>>

\* record[key] = value, on any instance the caller holds
SetItem ==
    /\ Idle
    /\ \E p \in DOMAIN val :
       \E key \in FieldNames(ConfigAt(p)) \cup {UnknownKey} :
       \E value \in SetItemInputs(ConfigAt(p), key) :
          Commit(Do(Engine, <<"setitem", p, key, value>>), Call("setitem", p, key, value))

Reset ==
    /\ Idle
    /\ \E p \in DOMAIN val :
          Commit(Do(Engine, <<"reset", p>>), Call("reset", p, "", NoArg))

Clear ==
    /\ Idle
    /\ \E p \in DOMAIN val :
          Commit(Do(Engine, <<"clear", p>>), Call("clear", p, "", NoArg))

SetInt ==
    /\ Idle
    /\ \E p \in DOMAIN val :
       \E I \in IntInputs(calculate_total_width(ConfigAt(p))) :
          Commit(Do(Engine, <<"set", p, IntV(I), FALSE, <<>> >>),
                 Call("set_int", p, "", IntV(I)))

SetMapping ==
    /\ Idle
    /\ \E p \in DOMAIN val :
       \E d \in Mappings(ConfigAt(p)) :
          Commit(Do(Engine, <<"set", p, d, FALSE, <<>> >>),
                 Call("set_mapping", p, "", d))

\* set(mapping, ignore_unknown=False): factory.py only
SetStrict ==
    /\ Idle /\ impl = "factory"
    /\ \E p \in DOMAIN val :
       \E d \in Mappings(ConfigAt(p)) :
       \E order \in Orders(Defaulted(ConfigAt(p), d.d)) :
          Commit(Do(Engine, <<"set", p, d, TRUE, order>>),
                 Call("set_strict", p, "", d))

Update ==
    /\ Idle
    /\ \E p \in DOMAIN val :
       \E d \in Mappings(ConfigAt(p)) \cup {StrV} :
          Commit(Do(Engine, <<"update", p, d>>), Call("update", p, "", d))

\* record[key]
GetItem ==
    /\ Idle
    /\ \E p \in DOMAIN val :
       \E key \in FieldNames(ConfigAt(p)) \cup {UnknownKey} :
          Commit(Do(Engine, <<"get", p, key>>), Call("getitem", p, key, NoArg))

\* record.inspect(): factory.py only
Inspect ==
    /\ Idle /\ impl = "factory"
    /\ \E p \in DOMAIN val :
          Commit(Do(Engine, <<"inspect", p>>), Call("inspect", p, "", NoArg))

\* record.valid(): factory.py only
Valid ==
    /\ Idle /\ impl = "factory"
    /\ \E p \in DOMAIN val :
          Commit(Do(Engine, <<"valid", p>>), Call("valid", p, "", NoArg))

\* the names declared in schema sid and in the variant schemas below it
RECURSIVE AllNames(_)
AllNames(sid) ==
    FieldNames(config[sid]) \cup
    UNION { UNION {AllNames(sub) : sub \in Range(config[sid][k].subtype) \ {NoSchema}} :
            k \in DOMAIN config[sid] }

\* key in record
Contains ==
    /\ Idle
    /\ \E p \in DOMAIN val :
       \E key \in AllNames(root) \cup {UnknownKey} :
          Commit(Do(Engine, <<"contains", p, key>>), Call("contains", p, key, NoArg))

\* list(record)
Iterate ==
    /\ Idle
    /\ \E p \in DOMAIN val :
          Commit(Do(Engine, <<"iter", p>>), Call("iter", p, "", NoArg))

\* record.to_json()
ToJson ==
    /\ Idle
    /\ \E p \in DOMAIN val :
          Commit(Do(Engine, <<"to_json", p>>), Call("to_json", p, "", NoArg))

\* record.to_int()
ToInt ==
    /\ Idle
    /\ \E p \in DOMAIN val :
          Commit(Do(Engine, <<"to_int", p>>), Call("to_int", p, "", NoArg))

\* record.to_bytes()
ToBytes ==
    /\ Idle
    /\ \E p \in DOMAIN val :
          Commit(Do(Engine, <<"to_bytes", p>>), Call("to_bytes", p, "", NoArg))

Next ==
    \/ Factory
    \/ Return
    \/ ConstructNone
    \/ ConstructInt
    \/ ConstructMapping
    \/ ConstructBad
    \/ Discard
    \/ SetItem
    \/ Reset
    \/ Clear
    \/ SetInt
    \/ SetMapping
    \/ SetStrict
    \/ Update
    \/ GetItem
    \/ Inspect
    \/ Valid
    \/ Contains
    \/ Iterate
    \/ ToJson
    \/ ToInt
    \/ ToBytes

Spec == Init /\ [][Next]_vars

\* Records built from byte sequences.
InitBytes ==
    /\ impl \in Impls
    /\ root \in ByteSchemas(impl)
    /\ built = "unbuilt"
    /\ config = <<>>
    /\ val = NoInstances
    /\ err = "none"
    /\ ret = NoRet
    /\ last = NoCall
    /\ threads = NoThreads

NextBytes ==
    \/ Factory
    \/ Return
    \/ ConstructBytes
    \/ Discard

SpecBytes == InitBytes /\ [][NextBytes]_vars

\* Bulk calls with mappings of up to MaxBulkKeys keys, on the schemas without
\* a deeper nesting.
MaxBulkKeys == 2

BulkSchemas(rev) == IF rev = "factory" THEN {"Flat", "Main"} ELSE {"Flat", "Rsv"}

InitBulk ==
    /\ impl \in Impls
    /\ root \in BulkSchemas(impl)
    /\ built = "unbuilt"
    /\ config = <<>>
    /\ val = NoInstances
    /\ err = "none"
    /\ ret = NoRet
    /\ last = NoCall
    /\ threads = NoThreads

SetMappingBulk ==
    /\ Idle
    /\ \E p \in DOMAIN val :
       \E d \in MappingsOf(ConfigAt(p), MaxBulkKeys) :
          Commit(Do(Engine, <<"set", p, d, FALSE, <<>> >>),
                 Call("set_mapping", p, "", d))

SetStrictBulk ==
    /\ Idle /\ impl = "factory"
    /\ \E p \in DOMAIN val :
       \E d \in MappingsOf(ConfigAt(p), MaxBulkKeys) :
       \E order \in Orders(Defaulted(ConfigAt(p), d.d)) :
          Commit(Do(Engine, <<"set", p, d, TRUE, order>>),
                 Call("set_strict", p, "", d))

UpdateBulk ==
    /\ Idle
    /\ \E p \in DOMAIN val :
       \E d \in MappingsOf(ConfigAt(p), MaxBulkKeys) :
          Commit(Do(Engine, <<"update", p, d>>), Call("update", p, "", d))

NextBulk ==
    \/ Factory
    \/ Return
    \/ ConstructNone
    \/ Discard
    \/ SetMappingBulk
    \/ SetStrictBulk
    \/ UpdateBulk

SpecBulk == InitBulk /\ [][NextBulk]_vars

\* Calls that all return without error, made on the root record or, as
\* scalar sets, on the sub-record the root currently selects, for the
\* schemas with one level of nesting and one bitdict field per selector.
Nesting(sid) ==
    IF \E k \in DOMAIN RawConfig(sid) : RawConfig(sid)[k].type = "bitdict"
    THEN IF \E k \in DOMAIN RawConfig(sid) :
              /\ RawConfig(sid)[k].type = "bitdict"
              /\ \E sub \in Range(RawConfig(sid)[k].subtype) \ {NoSchema} :
                    \E j \in DOMAIN RawConfig(sub) : RawConfig(sub)[j].type = "bitdict"
         THEN 2 ELSE 1
    ELSE 0

OneFieldPerSelector(sid) ==
    \A j, k \in DOMAIN RawConfig(sid) :
       (/\ RawConfig(sid)[j].type = "bitdict" /\ RawConfig(sid)[k].type = "bitdict"
        /\ RawConfig(sid)[j].selector = RawConfig(sid)[k].selector) => j = k

CoherentSchemas(rev) ==
    {sid \in RootSchemas(rev) : Nesting(sid) = 1 /\ OneFieldPerSelector(sid)}

InitCoherent ==
    /\ impl \in Impls
    /\ root \in CoherentSchemas(impl)
    /\ built = "unbuilt"
    /\ config = <<>>
    /\ val = NoInstances
    /\ err = "none"
    /\ ret = NoRet
    /\ last = NoCall
    /\ threads = NoThreads

\* the instance at p is the sub-record the root selects before the call
OnSelected(p) ==
    /\ Len(p) = 1
    /\ p[1][2] = SelectorValue(Engine, <<>>, FieldOf(ConfigAt(<<>>), p[1][1]))

\* the call just made returned, and was made on the root or was a set of a
\* bool, uint or int field of the selected sub-record
Sequenced ==
    /\ err' = "none"
    /\ \/ last'.p = <<>>
       \/ /\ last'.op = "setitem" /\ OnSelected(last'.p)
          /\ HasField(ConfigAt(last'.p), last'.key)
          /\ FieldOf(ConfigAt(last'.p), last'.key).type \in {"bool", "uint", "int"}

SeqConstructNone == ConstructNone /\ Sequenced

SeqConstructInt == ConstructInt /\ Sequenced

SeqConstructMapping == ConstructMapping /\ Sequenced

SeqSetItem == SetItem /\ Sequenced

SeqReset == Reset /\ Sequenced

SeqClear == Clear /\ Sequenced

SeqSetInt == SetInt /\ Sequenced

SeqSetMapping == SetMapping /\ Sequenced

SeqSetStrict == SetStrict /\ Sequenced

SeqUpdate == Update /\ Sequenced

NextCoherent ==
    \/ Factory
    \/ Return
    \/ Discard
    \/ SeqConstructNone
    \/ SeqConstructInt
    \/ SeqConstructMapping
    \/ SeqSetItem
    \/ SeqReset
    \/ SeqClear
    \/ SeqSetInt
    \/ SeqSetMapping
    \/ SeqSetStrict
    \/ SeqUpdate

SpecCoherent == InitCoherent /\ [][NextCoherent]_vars

\* The record of the test fixture, built from the seed 0x8C.
ScenarioSeed == 140

InitScenario ==
    /\ impl \in Impls
    /\ root = "Scenario"
    /\ built = "unbuilt"
    /\ config = <<>>
    /\ val = NoInstances
    /\ err = "none"
    /\ ret = NoRet
    /\ last = NoCall
    /\ threads = NoThreads

\* RecordType(0x8C)
ConstructSeed ==
    /\ CanConstruct
    /\ CommitNew(init_int(ScenarioSeed), Call("init_seed", <<>>, "", IntV(ScenarioSeed)))

NextScenario ==
    \/ Factory
    \/ Return
    \/ ConstructSeed
    \/ Discard
    \/ GetItem
    \/ SetItem

SpecScenario == InitScenario /\ [][NextScenario]_vars

---------------------------------------------------------------------------
(* Two scalar sets running side by side on records of one tree.  Each read *)
(* and each write of an instance's _value is one step; threads holds       *)
(*   active  whether the two calls are running                             *)
(*   serial  whether the caller lets a call start only when no other call  *)
(*           on the tree is running                                        *)
(*   start   the integers of the tree when the calls were issued           *)
(*   job     for each call the instance, the key and the value             *)
(*   pc      for each call the statement it is at                          *)
(*   x       for each call the integer it has read and is working on       *)

ThreadSchemas == {"Main", "Fit"}

Threads == {1, 2}

InitThreads ==
    /\ impl \in Impls
    /\ root \in ThreadSchemas
    /\ built = "unbuilt"
    /\ config = <<>>
    /\ val = NoInstances
    /\ err = "none"
    /\ ret = NoRet
    /\ last = NoCall
    /\ threads = NoThreads

\* v | (pat << start), for a pattern of width bits
RECURSIVE OrBits(_, _, _, _)
OrBits(v, start, width, pat) ==
    IF width = 0 THEN v
    ELSE OrBits(IF pat % 2 = 1 THEN Splice(v, start, 1, 1) ELSE v,
                start + 1, width - 1, pat \div 2)

\* the scalar sets a call may be: a field that is no selector, of any
\* instance of the tree, and a value the field accepts
Jobs ==
    {[p |-> p, key |-> ConfigAt(p)[k].name, arg |-> IntV(v)] :
        <<p, k, v>> \in
           {c \in (DOMAIN val) \X (1..3) \X (-2..4) :
               /\ c[2] \in ScalarFields(ConfigAt(c[1]))
               /\ BitdictOf(ConfigAt(c[1]), ConfigAt(c[1])[c[2]].name) = ""
               /\ c[3] \in ScalarDomain(ConfigAt(c[1])[c[2]])
               /\ CheckValue(ConfigAt(c[1])[c[2]], IntV(c[3])) = "none"}}

JobField(t) == FieldOf(ConfigAt(threads.job[t].p), threads.job[t].key)

\* two calls are issued, on different fields
Spawn ==
    /\ Idle /\ Exists /\ ~threads.active
    /\ \E serial \in BOOLEAN : \E j1, j2 \in Jobs :
          /\ <<j1.p, j1.key>> # <<j2.p, j2.key>>
          /\ threads' = [active |-> TRUE, serial |-> serial, start |-> val,
                         job |-> <<j1, j2>>, pc |-> <<"call", "call">>,
                         x |-> <<0, 0>>]
    /\ UNCHANGED <<impl, root, built, config, val, err, ret, last>>

\* a call that has not started or has returned is not running
Running(t) == threads.pc[t] \notin {"call", "done"}

\* a serializing caller starts a call only when no other call is running
MayBegin_Always(t) == TRUE

MayBegin(t) == threads.serial => \A u \in Threads \ {t} : ~Running(u)

\* the step of call t from statement from to statement to, which leaves the
\* tree with integers v and the call with x in hand
Step(t, from, to, v, x) ==
    /\ threads.active /\ threads.pc[t] = from
    /\ val' = v
    /\ threads' = [threads EXCEPT !.pc[t] = to, !.x[t] = x]
    /\ UNCHANGED <<impl, root, built, config, err, ret, last>>

\* __setitem__ is entered; the type and range checks pass
Begin ==
    \E t \in Threads :
       MayBegin(t) /\ Step(t, "call", "clear_read", val, threads.x[t])

\* self._value &= ~(mask << start): the read
ClearRead ==
    \E t \in Threads :
       Step(t, "clear_read", "clear_write", val, val[threads.job[t].p])

\* self._value &= ~(mask << start): the write
ClearWrite ==
    \E t \in Threads :
       Step(t, "clear_write", "or_read",
            [val EXCEPT ![threads.job[t].p] =
                ClearBits(threads.x[t], JobField(t).start, JobField(t).width)],
            threads.x[t])

\* self._value |= (value & mask) << start: the read
OrRead ==
    \E t \in Threads :
       Step(t, "or_read", "or_write", val, val[threads.job[t].p])

\* self._value |= (value & mask) << start: the write; a root record returns
OrWrite ==
    \E t \in Threads :
       Step(t, "or_write",
            IF threads.job[t].p = <<>> THEN "done" ELSE "parent_read",
            [val EXCEPT ![threads.job[t].p] =
                OrBits(threads.x[t], JobField(t).start, JobField(t).width,
                       EncodeValue(JobField(t), threads.job[t].arg))],
            threads.x[t])

\* _update_parent: _value = self._parent._get_value()
ParentRead ==
    \E t \in Threads :
       Step(t, "parent_read", "self_read", val, val[Front(threads.job[t].p)])

\* _update_parent: _value &= ~(mask << start); _value |= (self.to_int() & mask) << start
SelfRead ==
    \E t \in Threads :
       Step(t, "self_read", "parent_write", val,
            Splice(threads.x[t], ParentField(threads.job[t].p).start,
                   ParentField(threads.job[t].p).width, val[threads.job[t].p]))

\* _update_parent: self._parent._set_value(_value)
ParentWrite ==
    \E t \in Threads :
       Step(t, "parent_write", "done",
            [val EXCEPT ![Front(threads.job[t].p)] = threads.x[t]],
            threads.x[t])

\* both calls have returned
Finished == threads.active /\ \A t \in Threads : threads.pc[t] = "done"

\* the caller has seen both calls return and drops the record
Join ==
    /\ Finished
    /\ threads' = NoThreads
    /\ val' = NoInstances
    /\ UNCHANGED <<impl, root, built, config, err, ret, last>>

NextThreads ==
    \/ Factory
    \/ Return
    \/ ConstructInt
    \/ Spawn
    \/ Begin
    \/ ClearRead
    \/ ClearWrite
    \/ OrRead
    \/ OrWrite
    \/ ParentRead
    \/ SelfRead
    \/ ParentWrite
    \/ Join

SpecThreads == InitThreads /\ [][NextThreads]_vars

---------------------------------------------------------------------------
(* Properties.                                                             *)

\* the integer seeds __init__ lets through to set()
SeedInRange(I) == -Pow2(TotalWidth - 1) <= I /\ I < Pow2(TotalWidth)

\* C1: for every accepted schema and every integer I in the seed range the
\* constructor accepts, constructing from I succeeds and to_int() of the new
\* record is I
C1_IntSeedRoundTrip ==
    [][(last'.op = "init_int" /\ SeedInRange(last'.arg.v))
         => (err' = "none" /\ Exists' /\ val'[<<>>] = last'.arg.v)]_vars

\* C2: in every reachable state every Record Instance, the root and every
\* cached sub-record, holds an integer V with 0 <= V < 2^total_width
C2_ValueInRange ==
    \A p \in DOMAIN val :
       0 <= val[p] /\ val[p] < Pow2(calculate_total_width(ConfigAt(p)))

\* the engine state the caller finds when the call has returned
Post == [val |-> val', det |-> {}, err |-> "none", ret |-> NoRet]

\* the bitdict fields of cfg that name n as their selector
GovernedBy(cfg, n) ==
    {cfg[k].name : k \in {j \in DOMAIN cfg : cfg[j].type = "bitdict" /\ cfg[j].selector = n}}

\* every bool, uint and int field of the instance at q reads as its default
AtDefaults(s, q) ==
    \A k \in DOMAIN ConfigAt(q) :
       ConfigAt(q)[k].type \in {"bool", "uint", "int"}
          => getitem(s, q, ConfigAt(q)[k].name) = ConfigAt(q)[k].default

\* after record[key] = v on selector key of the instance at p, bitdict field b
\* reads as the sub-record cached for v: at its defaults when v was never
\* selected, else as it last was; and b's bits are that sub-record's integer
Snapped(p, key, b) ==
    LET k == getitem(Post, p, key)
        q == SubPath(p, b, k)
        rd == get_subbitdict(Post, p, b, k)
        f == FieldOf(ConfigAt(p), b)
    IN /\ rd.err = "none"
       /\ IF q \in DOMAIN val THEN rd.val[q] = val[q] ELSE AtDefaults(rd, q)
       /\ Slice(val'[p], f.start, f.width) = rd.val[q] % Pow2(f.width)

\* C3: after a selector field is set to v, reading the governed bitdict
\* field returns the sub-record cached for v (the variant's defaults if v
\* was never selected before, else the values it last held), the bitdict
\* field's bits in the record's integer equal that sub-record's integer
\* masked to the field width, and no operation evicts a cache entry
C3_SelectorSwitch ==
    [][/\ (last'.op = "setitem" /\ err' = "none")
            => \A b \in GovernedBy(ConfigAt(last'.p), last'.key) :
                  Snapped(last'.p, last'.key, b)
       /\ (Exists /\ last'.op # "discard") => DOMAIN val \subseteq DOMAIN val']_vars

\* the call just made is record[key] = value on a field of the given type
\* with an integer value
ScalarSet(c, type) ==
    /\ c.op = "setitem"
    /\ HasField(ConfigAt(c.p), c.key)
    /\ FieldOf(ConfigAt(c.p), c.key).type = type
    /\ c.arg.t = "int"

\* C4: for an int field of width w, set(field, v) followed by get(field)
\* returns v for every v in [-2^(w-1), 2^(w-1)-1], and every integer outside
\* that interval makes set raise the range error (ValueError)
C4_IntFieldRoundTrip ==
    [][ScalarSet(last', "int")
         => LET w == FieldOf(ConfigAt(last'.p), last'.key).width
                v == last'.arg.v
            IN IF -Pow2(w - 1) <= v /\ v <= Pow2(w - 1) - 1
               THEN err' = "none" /\ getitem(Post, last'.p, last'.key) = v
               ELSE err' = "ValueError"]_vars

\* a negative value was stored in an int field and reads back
C4_Witness ==
    /\ ScalarSet(last, "int")
    /\ last.arg.v < 0
    /\ err = "none"
    /\ getitem(Engine, last.p, last.key) = last.arg.v

\* the call just made is record[key] = value on a bool, uint or int field
ScalarSetAny(c) ==
    /\ c.op = "setitem"
    /\ HasField(ConfigAt(c.p), c.key)
    /\ FieldOf(ConfigAt(c.p), c.key).type \in {"bool", "uint", "int"}

\* C5: a single scalar set on a bool, uint or int field (a selector
\* included) that rejects the value or otherwise raises commits nothing: the
\* record's integer, its parent's and those of all cached sub-records are
\* as before the call
C5_FailedSetCommitsNothing ==
    [][(ScalarSetAny(last') /\ err' # "none") => val' = val]_vars

\* a set of a selector passed the range check and then raised because the
\* new selector value has no variant, on a record that caches sub-records
C5_Witness ==
    /\ ScalarSetAny(last)
    /\ BitdictOf(ConfigAt(last.p), last.key) # ""
    /\ err \in {"AssertionError", "IndexError"}
    /\ \E q \in DOMAIN val : q # <<>>

\* every bool, uint and int field of the instance at p and, recursively, of
\* the selected variant of each of its bitdict fields reads as its default
RECURSIVE ReadsDefaults(_, _)
ReadsDefaults(s, p) ==
    /\ AtDefaults(s, p)
    /\ \A k \in DOMAIN ConfigAt(p) :
          ConfigAt(p)[k].type = "bitdict"
             => LET f == ConfigAt(p)[k]
                    sel == SelectorValue(s, p, f)
                    rd == get_subbitdict(s, p, f.name, sel)
                IN rd.err = "none" /\ ReadsDefaults(rd, SubPath(p, f.name, sel))

\* in schema sid and in every variant schema below it, each selector is
\* declared before the bitdict fields it governs
RECURSIVE SelectorsFirst(_)
SelectorsFirst(sid) ==
    \A k \in DOMAIN config[sid] :
       config[sid][k].type = "bitdict"
          => /\ \E j \in 1..(k - 1) : config[sid][j].name = config[sid][k].selector
             /\ \A sub \in Range(config[sid][k].subtype) \ {NoSchema} :
                   SelectorsFirst(sub)

\* the call just made is a reset(), or a construction from an absent seed,
\* that returned
WasReset(c, e) == c.op \in {"reset", "init_none"} /\ e = "none"

RECURSIVE HasOverlap(_)
HasOverlap(sid) ==
    LET cfg == RawConfig(sid)
    IN \/ \E j, k \in DOMAIN cfg :
             j # k /\ BitsOf(cfg[j]) \cap BitsOf(cfg[k]) # {}
       \/ \E k \in DOMAIN cfg :
             /\ cfg[k].type = "bitdict"
             /\ \E sub \in Range(cfg[k].subtype) \ {NoSchema} : HasOverlap(sub)

\* C7: creating a Record Type from a schema in which two fields' bit ranges
\* intersect raises the schema error (ValueError) and yields no usable type,
\* whatever the declaration order and also when the intersecting fields are
\* in a nested variant schema of a bitdict field
C7_OverlapRejected ==
    (built # "unbuilt" /\ HasOverlap(root))
       => (built = "ValueError" /\ config = <<>> /\ ~Exists)

\* the non-negative integer a byte sequence encodes big-endian: byte k of n
\* weighs 256^(n - k)
RECURSIVE BigEndian(_)
BigEndian(bs) ==
    IF bs = <<>> THEN 0
    ELSE bs[1] * Pow2(8 * (Len(bs) - 1)) + BigEndian(Tail(bs))

ReadsAs(f, v) == IF f.type = "bool" THEN (IF v # 0 THEN 1 ELSE 0) ELSE v

\* the selector value of bitdict field k of the instance at p at the time a
\* bulk-set in declaration order reaches that field: the new value when the
\* selector is declared earlier, else the value before the call
SelectorWhenSet(pre, post, p, k) ==
    LET cfg == ConfigAt(p)
        sel == cfg[k].selector
    IN IF \E j \in 1..(k - 1) : cfg[j].name = sel THEN getitem(post, p, sel)
       ELSE IF p \in DOMAIN pre.val THEN getitem(pre, p, sel)
       ELSE FieldOf(cfg, sel).default

\* the instance at p shows mapping d applied without strictness: a given
\* scalar field reads as given, an absent one with a default as its default,
\* and the sub-record of a given bitdict field shows the nested mapping
RECURSIVE Applied(_, _, _, _)
Applied(pre, post, p, d) ==
    \A k \in DOMAIN ConfigAt(p) :
       LET f == ConfigAt(p)[k]
       IN IF f.type \in {"bool", "uint", "int"}
          THEN IF MapHas(d, f.name)
               THEN getitem(post, p, f.name) = ReadsAs(f, MapGet(d, f.name).v)
               ELSE f.hasDefault => getitem(post, p, f.name) = f.default
          ELSE (f.type = "bitdict" /\ MapHas(d, f.name) /\ MapGet(d, f.name).t = "dict")
                  => LET q == SubPath(p, f.name, SelectorWhenSet(pre, post, p, k))
                     IN q \in DOMAIN post.val /\ Applied(pre, post, q, MapGet(d, f.name).d)

\* every key of mapping d names no declared field of schema cfg
OnlyUnknown(cfg, d) == d # <<>> /\ \A i \in DOMAIN d : ~HasField(cfg, d[i][1])

\* C9: bulk-set from a mapping without strictness on any reachable record
\* assigns every declared field present in the mapping the given value and
\* every absent declared field that has a default its default, ignores keys
\* naming no declared field without error, and bulk-sets the selected
\* sub-record of a bitdict field present in the mapping with the nested
\* mapping
C9_NonStrictBulkSet ==
    [][last'.op = "set_mapping"
         => /\ err' = "none" => Applied(Engine, Post, last'.p, last'.arg.d)
            /\ OnlyUnknown(ConfigAt(last'.p), last'.arg.d) => err' = "none"]_vars

\* the selector value of bitdict field f of the instance at p at the time a
\* strict bulk-set reaches entry i of mapping d: as given by an earlier
\* entry, else the value before the call
SelectorWhenGiven(pre, p, f, d, i) ==
    IF \E j \in 1..(i - 1) : d[j][1] = f.selector
    THEN ReadsAs(FieldOf(ConfigAt(p), f.selector),
                 d[CHOOSE j \in 1..(i - 1) : d[j][1] = f.selector][2].v)
    ELSE getitem(pre, p, f.selector)

\* some key of mapping d, or of a mapping nested in it, names no declared
\* field of the instance at p, or of the sub-record the nested mapping is for
RECURSIVE HasUnknown(_, _, _)
HasUnknown(pre, p, d) ==
    \E i \in DOMAIN d :
       \/ ~HasField(ConfigAt(p), d[i][1])
       \/ /\ FieldOf(ConfigAt(p), d[i][1]).type = "bitdict"
          /\ d[i][2].t = "dict"
          /\ LET f == FieldOf(ConfigAt(p), d[i][1])
                 q == SubPath(p, f.name, SelectorWhenGiven(pre, p, f, d, i))
             IN \E j \in DOMAIN d[i][2].d : ~HasField(ConfigAt(q), d[i][2].d[j][1])

\* the instance at p shows mapping d applied strictly: a given scalar field
\* reads as given and an absent one with a default reads as its default
StrictApplied(post, p, d) ==
    \A k \in DOMAIN ConfigAt(p) :
       LET f == ConfigAt(p)[k]
       IN f.type \in {"bool", "uint", "int"}
             => IF MapHas(d, f.name)
                THEN getitem(post, p, f.name) = ReadsAs(f, MapGet(d, f.name).v)
                ELSE f.hasDefault => getitem(post, p, f.name) = f.default

\* C10: strict bulk-set from a mapping raises the unknown-field error
\* (KeyError) if any key of the mapping, at any nesting level, names no
\* declared field; otherwise all given keys are applied and afterwards every
\* declared field absent from the mapping that has a default holds it
C10_StrictBulkSet ==
    [][last'.op = "set_strict"
         => IF HasUnknown(Engine, last'.p, last'.arg.d)
            THEN err' = "KeyError"
            ELSE err' = "none" => StrictApplied(Post, last'.p, last'.arg.d)]_vars

\* the engine state the caller had before the call
Pre == [val |-> val, det |-> {}, err |-> "none", ret |-> NoRet]

\* field f takes value x: a bool any integer, a uint and an int those of
\* their width
Accepts(f, x) ==
    /\ x.t = "int"
    /\ f.type = "uint" => (0 <= x.v /\ x.v < Pow2(f.width))
    /\ f.type = "int" => (-Pow2(f.width - 1) <= x.v /\ x.v < Pow2(f.width - 1))

\* assigning x under name n on the instance at p is refused for certain: n is
\* not declared, or is reserved, or is a scalar field that does not take x
Refused(p, n, x) ==
    \/ ~HasField(ConfigAt(p), n)
    \/ FieldOf(ConfigAt(p), n).type = "reserved"
    \/ /\ FieldOf(ConfigAt(p), n).type \in {"bool", "uint", "int"}
       /\ ~Accepts(FieldOf(ConfigAt(p), n), x)

\* assigning x under name n on the instance at p can be refused
MayRefuse(p, n, x) ==
    Refused(p, n, x) \/ FieldOf(ConfigAt(p), n).type = "bitdict"

\* the scalar field n of the instance at p reads as x was assigned to it
Assigned(p, n, x) ==
    FieldOf(ConfigAt(p), n).type \in {"bool", "uint", "int"}
       => getitem(Post, p, n) = ReadsAs(FieldOf(ConfigAt(p), n), x.v)

\* the call left name n of the instance at p alone: a field's bits are as
\* before, and so is every sub-record cached under a bitdict field
Untouched(p, n) ==
    HasField(ConfigAt(p), n)
       => LET f == FieldOf(ConfigAt(p), n)
          IN IF f.type = "bitdict"
             THEN \A q \in DOMAIN val :
                     (Len(q) > Len(p) /\ IsPrefix(p, q) /\ q[Len(p) + 1][1] = n)
                        => val'[q] = val[q]
             ELSE Slice(val'[p], f.start, f.width) = Slice(val[p], f.start, f.width)

\* the entries of mapping d before the k-th are applied to the instance at
\* p, the k-th can be refused, and those after it are left alone
StoppedAtEntry(p, d, k) ==
    /\ MayRefuse(p, d[k][1], d[k][2])
    /\ \A j \in 1..(k - 1) : Assigned(p, d[j][1], d[j][2])
    /\ \A j \in (k + 1)..Len(d) : Untouched(p, d[j][1])

\* the value a bulk-set without strictness assigns the k-th declared field
Given(p, d, k) ==
    IF MapHas(d, ConfigAt(p)[k].name) THEN MapGet(d, ConfigAt(p)[k].name)
    ELSE IntV(ConfigAt(p)[k].default)

\* the declared fields before the k-th are applied to the instance at p (as
\* given, or their default), the k-th is given and can be refused, and those
\* after it are left alone
StoppedAtField(p, d, k) ==
    /\ MapHas(d, ConfigAt(p)[k].name)
    /\ MayRefuse(p, ConfigAt(p)[k].name, Given(p, d, k))
    /\ \A j \in 1..(k - 1) :
          (MapHas(d, ConfigAt(p)[j].name) \/ ConfigAt(p)[j].hasDefault)
             => Assigned(p, ConfigAt(p)[j].name, Given(p, d, j))
    /\ \A j \in (k + 1)..Len(ConfigAt(p)) : Untouched(p, ConfigAt(p)[j].name)

\* the call just made is a bulk call with a mapping
BulkCall(c) == c.op \in {"set_mapping", "set_strict", "update"} /\ c.arg.t = "dict"

\* C11: bulk set()/update() from a mapping is not transactional: when an
\* applied field is refused the call raises, the fields applied before it
\* keep their newly assigned values and the fields after it are not applied
C11_BulkNotTransactional ==
    [][BulkCall(last')
         => LET p == last'.p
                d == last'.arg.d
            IN IF last'.op = "set_mapping"
               THEN /\ (\E k \in DOMAIN d : HasField(ConfigAt(p), d[k][1])
                                               /\ Refused(p, d[k][1], d[k][2]))
                          => err' # "none"
                    /\ err' # "none"
                          => \E k \in DOMAIN ConfigAt(p) : StoppedAtField(p, d, k)
               ELSE /\ (\E k \in DOMAIN d : Refused(p, d[k][1], d[k][2]))
                          => err' # "none"
                    /\ err' # "none"
                          => \E k \in DOMAIN d : StoppedAtEntry(p, d, k)]_vars

\* a bulk call with two keys raised after it had changed the record
C11_Witness ==
    /\ BulkCall(last) /\ err # "none"
    /\ Len(last.arg.d) = 2
    /\ Refused(last.p, last.arg.d[2][1], last.arg.d[2][2])
    /\ ~Refused(last.p, last.arg.d[1][1], last.arg.d[1][2])
    /\ getitem(Engine, last.p, last.arg.d[1][1]) = last.arg.d[1][2].v
    /\ last.arg.d[1][2].v # FieldOf(ConfigAt(last.p), last.arg.d[1][1]).default

\* value v satisfies the constraint of field f: none is declared, or v is in
\* the value set, or in one of the ranges
Allowed(f, v) ==
    \/ ~f.hasValid
    \/ v \in f.validValue
    \/ \E r \in Range(f.validRange) : v \in PyRange(r)

\* the scalar fields of the instance at p whose value is outside their
\* constraint, as paths of one name
OwnViolations(s, p) ==
    {<<ConfigAt(p)[k].name>> :
        k \in {j \in ScalarFields(ConfigAt(p)) :
                  ~Allowed(ConfigAt(p)[j], getitem(s, p, ConfigAt(p)[j].name))}}

BitdictFields(cfg) == {k \in DOMAIN cfg : cfg[k].type = "bitdict"}

\* the fields outside their constraint at the instance at p and, under the
\* name of their bitdict field, in the selected variants
RECURSIVE Violations(_, _)
Violations(s, p) ==
    OwnViolations(s, p) \cup
    UNION { LET f == ConfigAt(p)[k]
                sel == SelectorValue(s, p, f)
                rd == get_subbitdict(s, p, f.name, sel)
            IN IF rd.err # "none" THEN {}
               ELSE {<<f.name>> \o x : x \in Violations(rd, SubPath(p, f.name, sel))} :
            k \in BitdictFields(ConfigAt(p)) }

\* the same, descending only into the variants selected by a selector value
\* that satisfies the selector's constraint
RECURSIVE WalkedViolations(_, _)
WalkedViolations(s, p) ==
    OwnViolations(s, p) \cup
    UNION { LET f == ConfigAt(p)[k]
                sel == SelectorValue(s, p, f)
                rd == get_subbitdict(s, p, f.name, sel)
            IN IF rd.err # "none" \/ ~Allowed(FieldOf(ConfigAt(p), f.selector), sel)
               THEN {}
               ELSE {<<f.name>> \o x :
                       x \in WalkedViolations(rd, SubPath(p, f.name, sel))} :
            k \in BitdictFields(ConfigAt(p)) }

\* the walk from the instance at p reaches a bitdict field whose selector
\* value satisfies its constraint and has no variant
RECURSIVE NoVariant(_, _)
NoVariant(s, p) ==
    \E k \in BitdictFields(ConfigAt(p)) :
       LET f == ConfigAt(p)[k]
           sel == SelectorValue(s, p, f)
           rd == get_subbitdict(s, p, f.name, sel)
       IN /\ Allowed(FieldOf(ConfigAt(p), f.selector), sel)
          /\ (rd.err # "none" \/ NoVariant(rd, SubPath(p, f.name, sel)))

\* the fields an inspect() report names, as paths
RECURSIVE Leaves(_)
Leaves(d) ==
    UNION { IF d[i][2].t = "dict"
            THEN {<<d[i][1]>> \o x : x \in Leaves(d[i][2].d)}
            ELSE {<<d[i][1]>>} : i \in DOMAIN d }

\* C12 as stated: for every reachable record inspect() reports exactly the
\* fields, at this level and nested in the selected variants, whose value is
\* outside their declared constraint, and valid() is true exactly when there
\* is no such field
C12_InspectExact ==
    [][/\ last'.op = "inspect"
            => (err' = "none" /\ Leaves(ret'.d) = Violations(Pre, last'.p))
       /\ last'.op = "valid"
            => (err' = "none" /\ (ret'.v = 1 <=> Violations(Pre, last'.p) = {}))]_vars

\* C12: inspect() raises when its walk reaches a bitdict field whose valid
\* selector value has no variant; otherwise it reports exactly the fields
\* outside their constraint at this level and, nested, in the variants
\* selected by a valid selector value (a variant selected by an invalid
\* selector value is not descended into); valid() returns true exactly when
\* that walk completes and finds nothing, and raises only on such a bitdict
\* field
C12_InspectWalk ==
    [][/\ last'.op = "inspect"
            => IF NoVariant(Pre, last'.p)
               THEN err' \in {"IndexError", "AssertionError"}
               ELSE err' = "none" /\ Leaves(ret'.d) = WalkedViolations(Pre, last'.p)
       /\ last'.op = "valid"
            => /\ err' # "none" => NoVariant(Pre, last'.p)
               /\ err' = "none"
                     => (ret'.v = 1 <=> (WalkedViolations(Pre, last'.p) = {}
                                          /\ ~NoVariant(Pre, last'.p)))]_vars

\* inspect() returned a report that names a field of a selected variant
C12_Witness ==
    /\ last.op = "inspect" /\ err = "none"
    /\ \E x \in Leaves(ret.d) : Len(x) = 2

\* the record as RecordType(0x8C) leaves it: Mode is false and the variant
\* for Mode = false is cached with the low four bits of the seed
SeedState == val = (<<>> :> ScenarioSeed @@ << <<"SubValue", 0>> >> :> 12)

\* C13: the scenario schema is accepted; RecordType(0x8C).to_int() is 0x8C,
\* Constant reads true, Mode false, SubValue.PropA 0 and SubValue.PropB -1;
\* and after Mode is set to true SubValue.PropC reads 1 and
\* SubValue.to_int() is 9
C13_Scenario ==
    [][/\ (root = "Scenario" /\ last'.op = "factory") => built' = "ok"
       /\ last'.op = "init_seed"
            => /\ err' = "none"
               /\ to_int(Post, <<>>) = ScenarioSeed
               /\ getitem(Post, <<>>, "Constant") = 1
               /\ getitem(Post, <<>>, "Mode") = 0
               /\ get(Post, <<>>, "SubValue").ret = RefV(<< <<"SubValue", 0>> >>)
               /\ getitem(get(Post, <<>>, "SubValue"), << <<"SubValue", 0>> >>, "PropA") = 0
               /\ getitem(get(Post, <<>>, "SubValue"), << <<"SubValue", 0>> >>, "PropB") = -1
       /\ (SeedState /\ last' = Call("setitem", <<>>, "Mode", IntV(1)))
            => /\ err' = "none"
               /\ get(Post, <<>>, "SubValue").ret = RefV(<< <<"SubValue", 1>> >>)
               /\ getitem(get(Post, <<>>, "SubValue"), << <<"SubValue", 1>> >>, "PropC") = 1
               /\ to_int(get(Post, <<>>, "SubValue"), << <<"SubValue", 1>> >>) = 9]_vars

ReservedFields(cfg) == {k \in DOMAIN cfg : cfg[k].type = "reserved"}

\* the call just made names a reserved field of its record
OnReserved(c) ==
    /\ HasField(ConfigAt(c.p), c.key)
    /\ FieldOf(ConfigAt(c.p), c.key).type = "reserved"

\* C14: a reserved field can be declared in a schema; on any record of the
\* schema get and set of the reserved field raise the read-only error
\* (ValueError) and leave the record's integer unchanged; reset leaves the
\* reserved bits alone and iteration does not yield the reserved field
C14_Reserved ==
    [][/\ (last'.op = "factory" /\ root = "Rsv") => built' = "ok"
       /\ (last'.op \in {"getitem", "setitem"} /\ OnReserved(last'))
            => (err' = "ValueError" /\ val' = val)
       /\ (last'.op = "reset" /\ err' = "none")
            => \A k \in ReservedFields(ConfigAt(last'.p)) :
                  Slice(val'[last'.p], ConfigAt(last'.p)[k].start, ConfigAt(last'.p)[k].width)
                    = Slice(val[last'.p], ConfigAt(last'.p)[k].start, ConfigAt(last'.p)[k].width)
       /\ (last'.op = "iter" /\ err' = "none")
            => \A i \in DOMAIN ret'.d :
                  FieldOf(ConfigAt(last'.p), ret'.d[i][1]).type # "reserved"]_vars

\* the names declared at the instance at p and, recursively, in the selected
\* variant of each of its bitdict fields
RECURSIVE Visible(_, _)
Visible(s, p) ==
    FieldNames(ConfigAt(p)) \cup
    UNION { LET f == ConfigAt(p)[k]
                sel == SelectorValue(s, p, f)
                rd == get_subbitdict(s, p, f.name, sel)
            IN IF rd.err # "none" THEN {}
               ELSE Visible(rd, SubPath(p, f.name, sel)) :
            k \in BitdictFields(ConfigAt(p)) }

\* C15: the containment test on a record is true for a name declared at
\* this level or, recursively, in the selected variant of some bitdict field,
\* and false for every other name, such as one that exists only in variants
\* that are not selected
C15_Containment ==
    [][last'.op = "contains"
         => (err' = "none" /\ (ret'.v = 1 <=> last'.key \in Visible(Pre, last'.p)))]_vars

\* some bitdict field of schema sid, or of a variant schema below it, has a
\* selector value that is in the selector's domain and satisfies its valid
\* constraint (every in-domain value when there is none) but has no variant:
\* the slot is None or past the end of the variant list
RECURSIVE Unimplemented(_)
Unimplemented(sid) ==
    LET cfg == RawConfig(sid)
    IN \E k \in DOMAIN cfg :
          /\ cfg[k].type = "bitdict"
          /\ \/ /\ HasField(cfg, cfg[k].selector)
                /\ LET sel == FieldOf(cfg, cfg[k].selector)
                   IN /\ sel.type \in {"bool", "uint"}
                      /\ \E v \in 0..(Pow2(sel.width) - 1) :
                            /\ is_valid_value(v, sel)
                            /\ \/ v >= Len(cfg[k].subtype)
                               \/ cfg[k].subtype[v + 1] = NoSchema
             \/ \E sub \in Range(cfg[k].subtype) \ {NoSchema} : Unimplemented(sub)

\* C16: creating a Record Type from a schema in which a selector value that
\* the selector's valid constraint allows has no variant raises the schema
\* error (ValueError) and yields no usable type
C16_UnimplementedRejected ==
    (built # "unbuilt" /\ Unimplemented(root))
       => (built = "ValueError" /\ config = <<>> /\ ~Exists)

\* the calls that mutate a record
Mutations == {"setitem", "reset", "clear", "set_int", "set_mapping", "set_strict"}

\* the bits of the bitdict field that holds the sub-record at p, in its
\* immediate parent, are the sub-record's integer masked to the field width
PushedUp(s, p) ==
    LET pc == FieldOf(ConfigAt(Front(p)), Last(p)[1])
    IN Slice(s.val[Front(p)], pc.start, pc.width) = s.val[p] % Pow2(pc.width)

\* C17: when a scalar set, a reset, a bulk-set from a mapping or from an
\* integer, or a clear of a sub-record that has a parent returns, the
\* parent's bits in the sub-record's field range equal the sub-record's
\* integer masked to the field width
C17_PushUpOnMutation ==
    [][(last'.op \in Mutations /\ last'.p # <<>> /\ err' = "none")
          => PushedUp(Post, last'.p)]_vars

\* every ancestor of the instance at p holds, in the bits of the bitdict
\* field on the way down to p, the integer of the instance below it masked to
\* the field width
RECURSIVE PushedToRoot(_, _)
PushedToRoot(s, p) ==
    p = <<>> \/ (PushedUp(s, p) /\ PushedToRoot(s, Front(p)))

\* C18: when a scalar set on a sub-record two or more levels below the root
\* returns, the integer of every ancestor up to the root contains the updated
\* value
C18_PushUpToRoot ==
    [][(last'.op = "setitem" /\ Len(last'.p) >= 2 /\ err' = "none")
          => PushedToRoot(Post, last'.p)]_vars

\* C19: a call on a sub-record changes, in its immediate parent's integer,
\* only the bits [start, start + width) of the bitdict field that holds it,
\* also when the sub-record's integer needs more bits than the field has
C19_PushUpFrame ==
    [][(last'.op \in Mutations \cup {"update"} /\ last'.p # <<>>)
          => ClearBits(val'[Front(last'.p)], ParentField(last'.p).start,
                       ParentField(last'.p).width)
             = ClearBits(val[Front(last'.p)], ParentField(last'.p).start,
                         ParentField(last'.p).width)]_vars

\* a scalar set on a sub-record whose integer does not fit the parent's field
\* has returned, and the parent holds its low bits
C19_Witness ==
    /\ last.op = "setitem" /\ last.p # <<>> /\ err = "none"
    /\ val[last.p] >= Pow2(ParentField(last.p).width)
    /\ PushedUp(Engine, last.p)

\* the bits a scalar set of field n may write in the record's own integer:
\* the field's own and, for a selector, those of the bitdict field it governs
SetFrame(cfg, n) ==
    BitsOf(FieldOf(cfg, n)) \cup
    (IF BitdictOf(cfg, n) = "" THEN {} ELSE BitsOf(FieldOf(cfg, BitdictOf(cfg, n))))

\* integers v and w have the same bits everywhere but at the positions in
\* frame; width is the record's total width, the bits above it are compared
\* as one
SameOutside(v, w, frame, width) ==
    /\ \A b \in (0..(width - 1)) \ frame : Slice(v, b, 1) = Slice(w, b, 1)
    /\ v \div Pow2(width) = w \div Pow2(width)

\* a successful set of a bool, uint or int field
ScalarStored(c, e) ==
    /\ c.op = "setitem" /\ e = "none"
    /\ HasField(ConfigAt(c.p), c.key)
    /\ FieldOf(ConfigAt(c.p), c.key).type \in {"bool", "uint", "int"}

\* C20: a successful scalar set of a bool, uint or int field changes, in the
\* record's own integer, only the field's bit range and, for a selector, the
\* bit range of the bitdict field it governs; every other bit, reserved bits
\* and other fields included, is unchanged
C20_ScalarSetFrame ==
    [][ScalarStored(last', err')
          => SameOutside(val'[last'.p], val[last'.p],
                         SetFrame(ConfigAt(last'.p), last'.key),
                         calculate_total_width(ConfigAt(last'.p)))]_vars

\* a selector has been set in a record that has a bit set outside the
\* selector's and the governed field's ranges
C20_Witness ==
    /\ ScalarStored(last, err)
    /\ BitdictOf(ConfigAt(last.p), last.key) # ""
    /\ \E b \in (0..(calculate_total_width(ConfigAt(last.p)) - 1))
                   \ SetFrame(ConfigAt(last.p), last.key) :
          Slice(val[last.p], b, 1) = 1

\* under the instance at p, every bitdict field's sub-record selected by the
\* selector value read from p's integer exists and holds the field's slice
\* of p's integer, and so on below it
RECURSIVE Derived(_, _)
Derived(s, p) ==
    \A k \in BitdictFields(ConfigAt(p)) :
       LET f == ConfigAt(p)[k]
           q == SubPath(p, f.name, SelectorValue(s, p, f))
       IN /\ q \in DOMAIN s.val
          /\ s.val[q] = Slice(s.val[p], f.start, f.width)
          /\ Derived(s, q)

\* the calls that bulk-set a record from an integer, and the integer given
IntegerSet(c) == c.op \in {"set_int", "clear", "init_int"}

GivenInteger(c) == IF c.op = "clear" THEN 0 ELSE c.arg.v

\* C21: when a bulk-set from an integer I returns, the record's integer is I
\* and, for every bitdict field, the sub-record selected by the selector
\* value read from I holds the field's bit slice of I, recursively
C21_IntegerSetDerives ==
    [][(IntegerSet(last') /\ err' = "none")
          => /\ val'[last'.p] = GivenInteger(last')
             /\ Derived(Post, last'.p)]_vars

\* set(int) has returned on a record with a bitdict field whose selector now
\* reads non-zero and whose selected sub-record holds a non-zero slice
C21_Witness ==
    /\ last.op = "set_int" /\ err = "none"
    /\ \E k \in BitdictFields(ConfigAt(last.p)) :
          LET f == ConfigAt(last.p)[k]
          IN /\ SelectorValue(Engine, last.p, f) # 0
             /\ Slice(val[last.p], f.start, f.width) # 0
             /\ Derived(Engine, last.p)

\* C22: in a schema with one level of nesting and one bitdict field per
\* selector, after calls that all returned without error and were made on the
\* root or as scalar sets on the selected sub-record, the bits of every
\* bitdict field in the root's integer equal the integer of the sub-record
\* its selector selects, masked to the field width
C22_Coherence ==
    Exists =>
       \A k \in BitdictFields(ConfigAt(<<>>)) :
          LET f == ConfigAt(<<>>)[k]
              q == SubPath(<<>>, f.name, SelectorValue(Engine, <<>>, f))
          IN /\ q \in DOMAIN val
             /\ Slice(val[<<>>], f.start, f.width) = val[q] % Pow2(f.width)

\* a scalar set on the selected sub-record has returned and the root holds
\* the sub-record's non-zero integer in the field's bits
C22_Witness ==
    /\ last.op = "setitem" /\ Len(last.p) = 1 /\ err = "none"
    /\ val[last.p] # 0
    /\ last.p[1][2] = SelectorValue(Engine, <<>>, FieldOf(ConfigAt(<<>>), last.p[1][1]))
    /\ C22_Coherence

\* the instance at p is cached by its parent for a selector value other than
\* the one the parent's selector holds
NotSelected(s, p) ==
    /\ p # <<>>
    /\ Last(p)[2] # SelectorValue(s, Front(p), ParentField(p))

\* C23: a mutation of a cached sub-record that its parent's selector does not
\* select leaves the parent's integer as it was
C23_StaleReferenceInert ==
    [][(last'.op \in Mutations \cup {"update"} /\ NotSelected(Pre, last'.p))
          => val'[Front(last'.p)] = val[Front(last'.p)]]_vars

\* the integers of the tree after call a and then call b, each run alone
\* from the integers the tree had when the calls were issued
InOrder(a, b) ==
    Do(Do([Engine EXCEPT !.val = threads.start],
          <<"setitem", threads.job[a].p, threads.job[a].key, threads.job[a].arg>>),
       <<"setitem", threads.job[b].p, threads.job[b].key, threads.job[b].arg>>).val

\* C24: when the mutating calls on a tree are serialized, the integers the
\* tree ends with are those of one of the two serial orders
C24_SerializedIsSerial ==
    (Finished /\ threads.serial) => val \in {InOrder(1, 2), InOrder(2, 1)}

\* two scalar sets ran without mutual exclusion and the root's integer is
\* that of neither serial order: an update is lost
C24_Witness ==
    /\ Finished /\ ~threads.serial
    /\ val[<<>>] \notin {InOrder(1, 2)[<<>>], InOrder(2, 1)[<<>>]}

\* the bitdict fields of schema cfg that name n as their selector
GovernedFields(cfg, n) ==
    {k \in BitdictFields(cfg) : cfg[k].selector = n}

\* C25: when a set of a selector to v returns, every bitdict field the
\* selector governs holds, in the record's integer, the integer of that
\* field's sub-record for v masked to the field width
C25_SelectorResyncsAll ==
    [][(ScalarStored(last', err') /\ GovernedFields(ConfigAt(last'.p), last'.key) # {})
          => \A k \in GovernedFields(ConfigAt(last'.p), last'.key) :
                LET f == ConfigAt(last'.p)[k]
                    q == SubPath(last'.p, f.name, getitem(Post, last'.p, last'.key))
                IN /\ q \in DOMAIN val'
                   /\ Slice(val'[last'.p], f.start, f.width) = val'[q] % Pow2(f.width)]_vars

\* C26: when a bulk-set from an integer (set(int) or clear()) raises, the
\* record's integer and the integers of all the sub-records cached before
\* the call are as they were
C26_FailedIntegerSetCommitsNothing ==
    [][(last'.op \in {"set_int", "clear"} /\ err' # "none")
          => \A q \in DOMAIN val : q \in DOMAIN val' /\ val'[q] = val[q]]_vars

\* the calls that only read a record
ReadOnly ==
    {"getitem", "contains", "iter", "to_json", "to_int", "to_bytes", "inspect", "valid"}

\* C27: a get, a containment test, an iteration, to_json, to_int, to_bytes,
\* inspect or valid leaves the integer of every record of the tree as it was,
\* also when it creates and caches the sub-record of the selected variant
C27_ReadsChangeNothing ==
    [][last'.op \in ReadOnly
          => \A q \in DOMAIN val : q \in DOMAIN val' /\ val'[q] = val[q]]_vars

\* a get has returned the selected sub-record of a bitdict field, and the
\* sub-record holds defaults that the parent's bits do not show
C27_Witness ==
    /\ last.op = "getitem" /\ err = "none" /\ ret.t = "ref"
    /\ val[ret.d] # 0
    /\ Slice(val[Front(ret.d)], ParentField(ret.d).start, ParentField(ret.d).width) = 0

\* inspect() called on the instance at p, in state s, returns an empty mapping
InspectsEmpty(s, p) ==
    LET r == Do(s, <<"inspect", p>>)
    IN r.err = "none" /\ r.ret.d = <<>>

\* C28: on every reachable record valid() returns true exactly when inspect()
\* returns an empty mapping, also when a selector holds a value outside its
\* constraint and its variant is not descended into
C28_ValidIffInspectEmpty ==
    [][last'.op = "valid"
          => ((err' = "none" /\ ret'.v = 1) <=> InspectsEmpty(Pre, last'.p))]_vars

\* valid() has returned false on a record one of whose selectors holds a
\* value outside its constraint
C28_Witness ==
    /\ last.op = "valid" /\ err = "none" /\ ret.v = 0
    /\ \E k \in BitdictFields(ConfigAt(last.p)) :
          LET f == ConfigAt(last.p)[k]
          IN ~is_valid_value(SelectorValue(Engine, last.p, f),
                             FieldOf(ConfigAt(last.p), f.selector))
    /\ ~InspectsEmpty(Engine, last.p)

\* the engine state after RecordType(d) and to_json() on the new record
Rebuilt(d) ==
    Do(Do(Fresh, <<"set", <<>>, d, FALSE, <<>> >>), <<"to_json", <<>> >>)

C30_DefaultConstructs ==
    [][last'.op = "init_none" => err' = "none"]_vars

====
